---- MODULE Spec2Model ----
(***************************************************************************)
(* Allocation and enrollment consistency of the e-learning management      *)
(* backend (backend/main.py handlers and backend/services/                 *)
(* academic_service.py).  Tables are sequences of rows; the id of a row is *)
(* its position (autoincrement primary key, rows are never deleted).       *)
(* A query ending in .first() without ORDER BY returns the matching row    *)
(* with the lowest id (rowid order of the default SQLite store).           *)
(***************************************************************************)
EXTENDS Integers, Sequences, FiniteSets, TLC

VARIABLES departments, programs, courses, users, program_lecturers,
          program_courses, enrollments, resp, sessions, cookie,
          semesters, requests, now, admitted

vars == <<departments, programs, courses, users, program_lecturers,
          program_courses, enrollments, resp, sessions, cookie,
          semesters, requests, now, admitted>>

----------------------------------------------------------------------------
(* Bounds of the model *)

MaxProgramLecturers == 2
MaxProgramCourses == 3
MaxEnrollments == 8
MaxDepartments == 4

----------------------------------------------------------------------------
(* Values *)

\* Python None (also: a missing id in a request)
None == 0

\* An optional key of a request dict: <<>> when absent, <<v>> when present
Has(x) == x # <<>>
Val(x) == x[1]
Optional(S) == {<<>>} \cup {<<v>> : v \in S}

\* str.upper() on the codes of the model
Upper(c) ==
    CASE c = "cs" -> "CS"
      [] c = "ee" -> "EE"
      [] c = "ba" -> "BA"
      [] c = "c" -> "C"
      [] c = "bscs" -> "BSCS"
      [] c = "mba" -> "MBA"
      [] c = "cs101" -> "CS101"
      [] c = "cs301" -> "CS301"
      [] c = "math" -> "MATH"
      [] c = "ee101" -> "EE101"
      [] OTHER -> c

\* str(n) of a count in an f-string
Str(n) ==
    CASE n = 0 -> "0" [] n = 1 -> "1" [] n = 2 -> "2" [] n = 3 -> "3"
      [] n = 4 -> "4" [] n = 5 -> "5" [] n = 6 -> "6" [] n = 7 -> "7"
      [] n = 8 -> "8" [] n = 9 -> "9"
      [] n = 500 -> "500" [] n = 2020 -> "2020" [] n = 2030 -> "2030"

\* str.strip() on the codes of the model
Strip(c) ==
    CASE c = " CS " -> "CS"
      [] c = "   " -> ""
      [] c = " Alice.Smith@Student.LMS.edu " -> "Alice.Smith@Student.LMS.edu"
      [] OTHER -> c

\* CODE_PATTERN ^[A-Z0-9\-_]{2,20}$ on the strings of the model: the strings
\* of 2 to 20 capitals and digits match (the codes in capitals, and also the
\* words in capitals and the numbers of at least two digits); "C" and the
\* single digits are too short, " CS " holds blanks, "10.0.0.1" dots, and
\* every other string of the model holds small letters, blanks or punctuation
CodePattern(c) ==
    c \in {"CS", "EE", "BA", "MATH", "BUS", "BSCS", "MSCS", "BSMATH", "MBA",
           "CS101", "CS201", "CS301", "CS401", "MATH101", "BUS101", "EE101",
           "ADMIN", "ENROLLED", "COMPLETED", "500", "2020", "2030"}

\* the ids of the stored users, and User.role of each
UserIds == DOMAIN users
UserRole == [u \in DOMAIN users |-> users[u].role]

\* role labels of a ProgramLecturer row
RoleLabels == {"lecturer", "coordinator"}

Min(S) == CHOOSE x \in S : \A y \in S : x <= y

\* Sequence of the elements of s that satisfy Test, in order (list comprehension)
RECURSIVE Filter(_, _)
Filter(s, keep) ==
    IF s = <<>> THEN <<>>
    ELSE IF Head(s) \in keep THEN <<Head(s)>> \o Filter(Tail(s), keep)
    ELSE Filter(Tail(s), keep)

\* Requests in progress: each of the two workers serves one request at a time
\* in a session of its own (SessionLocal(), autocommit and autoflush off);
\* a handler taken as one step leaves the sessions as they are
Slots == 1..2
Idle == [op |-> "idle"]

\* The response of a handler: HTTP status and detail / message
Response(op, status, detail) == [op |-> op, status |-> status, detail |-> detail]

----------------------------------------------------------------------------
(* ProgramLecturer: assign / update / remove (main.py) *)

\* db.query(ProgramLecturer).filter(program_id, lecturer_id).first(): id or None
ExistingAssignment(pl, program_id, lecturer_id) ==
    LET S == {i \in DOMAIN pl : /\ pl[i].program_id = program_id
                                /\ pl[i].lecturer_id = lecturer_id}
    IN IF S = {} THEN None ELSE Min(S)

\* db.query(User).filter(User.id == lecturer_id, User.role == LECTURER).first()
IsLecturer(lecturer_id) ==
    lecturer_id \in UserIds /\ UserRole[lecturer_id] = "lecturer"

\* Reactivation branch of assign_lecturer_to_program
ReactivateAssignment(row, role, actor) ==
    [row EXCEPT !.is_active = TRUE, !.role = role, !.assigned_by_id = actor]

\* POST /api/academic/programs/{program_id}/lecturers: the response and the
\* table the handler commits
AssignLecturerResult(actor, program_id, lecturer_id, role) ==
    LET pl == program_lecturers
        existing == ExistingAssignment(pl, program_id, lecturer_id)
        Refuse(status, detail) ==
            [status |-> status, detail |-> detail, program_lecturers |-> pl]
    IN
    IF UserRole[actor] # "admin" THEN Refuse(403, "Access denied")
    ELSE IF lecturer_id = None THEN Refuse(400, "lecturer_id is required")
    ELSE IF program_id \notin DOMAIN programs THEN Refuse(404, "Program not found")
    ELSE IF ~IsLecturer(lecturer_id) THEN Refuse(404, "Lecturer not found")
    ELSE IF existing # None THEN
       IF pl[existing].is_active
       THEN Refuse(400, "Lecturer is already assigned to this program")
       ELSE [status |-> 200,
             detail |-> "Lecturer assignment reactivated successfully",
             program_lecturers |->
                [pl EXCEPT ![existing] = ReactivateAssignment(pl[existing], role, actor)]]
    ELSE [status |-> 200,
          detail |-> "Lecturer assigned to program successfully",
          program_lecturers |-> Append(pl,
                [program_id |-> program_id, lecturer_id |-> lecturer_id,
                 role |-> role, is_active |-> TRUE, assigned_by_id |-> actor])]

assign_lecturer_to_program(actor, program_id, lecturer_id, role) ==
    LET r == AssignLecturerResult(actor, program_id, lecturer_id, role) IN
    /\ Len(r.program_lecturers) <= MaxProgramLecturers
    /\ program_lecturers' = r.program_lecturers
    /\ resp' = Response("assign_lecturer_to_program", r.status, r.detail)
    /\ UNCHANGED <<requests, now, admitted, semesters, cookie, sessions, departments, users, programs, courses, program_courses, enrollments>>

\* db.query(ProgramLecturer).filter(id == assignment_id, program_id == program_id).first()
AssignmentOfProgram(pl, program_id, assignment_id) ==
    IF /\ assignment_id \in DOMAIN pl
       /\ pl[assignment_id].program_id = program_id
    THEN assignment_id ELSE None

\* PUT /api/academic/programs/{program_id}/lecturers/{assignment_id}
\* (the HTTPExceptions raised inside are caught and re-raised as 500)
UpdateAssignmentResult(actor, program_id, assignment_id, role, is_active) ==
    LET pl == program_lecturers
        a == AssignmentOfProgram(pl, program_id, assignment_id)
        Refuse(status, detail) ==
            [status |-> status, detail |-> detail, program_lecturers |-> pl]
    IN
    IF UserRole[actor] # "admin" THEN Refuse(500, "Access denied")
    ELSE IF a = None THEN Refuse(500, "Assignment not found")
    ELSE [status |-> 200, detail |-> "Assignment updated successfully",
          program_lecturers |-> [pl EXCEPT ![a] =
             [@ EXCEPT !.role = IF Has(role) THEN Val(role) ELSE @,
                       !.is_active = IF Has(is_active) THEN Val(is_active) ELSE @]]]

update_lecturer_assignment(actor, program_id, assignment_id, role, is_active) ==
    LET r == UpdateAssignmentResult(actor, program_id, assignment_id, role, is_active) IN
    /\ program_lecturers' = r.program_lecturers
    /\ resp' = Response("update_lecturer_assignment", r.status, r.detail)
    /\ UNCHANGED <<requests, now, admitted, semesters, cookie, sessions, departments, users, programs, courses, program_courses, enrollments>>

\* DELETE /api/academic/programs/{program_id}/lecturers/{assignment_id}
\* (the HTTPExceptions raised inside are caught and re-raised as 500)
RemoveLecturerResult(actor, program_id, assignment_id) ==
    LET pl == program_lecturers
        a == AssignmentOfProgram(pl, program_id, assignment_id)
        Refuse(status, detail) ==
            [status |-> status, detail |-> detail, program_lecturers |-> pl]
    IN
    IF UserRole[actor] # "admin" THEN Refuse(500, "Access denied")
    ELSE IF a = None THEN Refuse(500, "Assignment not found")
    ELSE [status |-> 200, detail |-> "Lecturer removed from program successfully",
          program_lecturers |-> [pl EXCEPT ![a].is_active = FALSE]]

remove_lecturer_from_program(actor, program_id, assignment_id) ==
    LET r == RemoveLecturerResult(actor, program_id, assignment_id) IN
    /\ program_lecturers' = r.program_lecturers
    /\ resp' = Response("remove_lecturer_from_program", r.status, r.detail)
    /\ UNCHANGED <<requests, now, admitted, semesters, cookie, sessions, departments, users, programs, courses, program_courses, enrollments>>

----------------------------------------------------------------------------
(* ProgramCourse: allocate / update / remove (main.py) *)

\* db.query(ProgramCourse).filter(program_id, course_id).first(): id or None
\* A faulty variant: the lookup sees the active rows only
ExistingAllocation_ActiveOnly(pc, program_id, course_id) ==
    LET S == {i \in DOMAIN pc : /\ pc[i].program_id = program_id
                                /\ pc[i].course_id = course_id
                                /\ pc[i].is_active}
    IN IF S = {} THEN None ELSE Min(S)

ExistingAllocation(pc, program_id, course_id) ==
    LET S == {i \in DOMAIN pc : /\ pc[i].program_id = program_id
                                /\ pc[i].course_id = course_id}
    IN IF S = {} THEN None ELSE Min(S)

\* A reactivation that keeps the stored semester_order
ReactivateAllocation_KeepsOrder(row, is_required, semester_order, actor) ==
    [row EXCEPT !.is_active = TRUE, !.is_required = is_required,
                !.allocated_by_id = actor]

\* Reactivation branch of allocate_course_to_program
ReactivateAllocation(row, is_required, semester_order, actor) ==
    [row EXCEPT !.is_active = TRUE, !.is_required = is_required,
                !.semester_order = semester_order, !.allocated_by_id = actor]

\* POST /api/academic/programs/{program_id}/courses: the response and the
\* table the handler commits
AllocateCourseResult(actor, program_id, course_id, is_required, semester_order) ==
    LET pc == program_courses
        existing == ExistingAllocation(pc, program_id, course_id)
        Refuse(status, detail) ==
            [status |-> status, detail |-> detail, program_courses |-> pc]
    IN
    IF UserRole[actor] # "admin" THEN Refuse(403, "Access denied")
    ELSE IF course_id = None THEN Refuse(400, "course_id is required")
    ELSE IF program_id \notin DOMAIN programs THEN Refuse(404, "Program not found")
    ELSE IF course_id \notin DOMAIN courses THEN Refuse(404, "Course not found")
    ELSE IF existing # None THEN
       IF pc[existing].is_active
       THEN Refuse(400, "Course is already allocated to this program")
       ELSE [status |-> 200,
             detail |-> "Course allocation reactivated successfully",
             program_courses |->
                [pc EXCEPT ![existing] =
                    ReactivateAllocation(pc[existing], is_required, semester_order,
                                         actor)]]
    ELSE [status |-> 200,
          detail |-> "Course allocated to program successfully",
          program_courses |-> Append(pc,
                [program_id |-> program_id, course_id |-> course_id,
                 is_required |-> is_required, semester_order |-> semester_order,
                 is_active |-> TRUE, allocated_by_id |-> actor])]

allocate_course_to_program(actor, program_id, course_id, is_required, semester_order) ==
    LET r == AllocateCourseResult(actor, program_id, course_id, is_required,
                                  semester_order) IN
    /\ Len(r.program_courses) <= MaxProgramCourses
    /\ program_courses' = r.program_courses
    /\ resp' = Response("allocate_course_to_program", r.status, r.detail)
    /\ UNCHANGED <<requests, now, admitted, semesters, cookie, sessions, departments, users, programs, courses, program_lecturers, enrollments>>

\* db.query(ProgramCourse).filter(id == allocation_id, program_id == program_id).first()
AllocationOfProgram(pc, program_id, allocation_id) ==
    IF /\ allocation_id \in DOMAIN pc
       /\ pc[allocation_id].program_id = program_id
    THEN allocation_id ELSE None

\* A faulty variant: only students are refused
UpdateAllocationResult_StudentsRefused(actor, program_id, allocation_id, is_required, semester_order, is_active) ==
    LET pc == program_courses
        a == AllocationOfProgram(pc, program_id, allocation_id)
        Refuse(status, detail) ==
            [status |-> status, detail |-> detail, program_courses |-> pc]
    IN
    IF UserRole[actor] = "student" THEN Refuse(403, "Access denied")
    ELSE IF a = None THEN Refuse(404, "Course allocation not found")
    ELSE [status |-> 200, detail |-> "Course allocation updated successfully",
          program_courses |-> [pc EXCEPT ![a] =
             [@ EXCEPT !.is_required = IF Has(is_required) THEN Val(is_required) ELSE @,
                       !.semester_order = IF Has(semester_order)
                                          THEN Val(semester_order) ELSE @,
                       !.is_active = IF Has(is_active) THEN Val(is_active) ELSE @]]]

\* PUT /api/academic/programs/{program_id}/courses/{allocation_id}
UpdateAllocationResult(actor, program_id, allocation_id, is_required, semester_order, is_active) ==
    LET pc == program_courses
        a == AllocationOfProgram(pc, program_id, allocation_id)
        Refuse(status, detail) ==
            [status |-> status, detail |-> detail, program_courses |-> pc]
    IN
    IF UserRole[actor] # "admin" THEN Refuse(403, "Access denied")
    ELSE IF a = None THEN Refuse(404, "Course allocation not found")
    ELSE [status |-> 200, detail |-> "Course allocation updated successfully",
          program_courses |-> [pc EXCEPT ![a] =
             [@ EXCEPT !.is_required = IF Has(is_required) THEN Val(is_required) ELSE @,
                       !.semester_order = IF Has(semester_order)
                                          THEN Val(semester_order) ELSE @,
                       !.is_active = IF Has(is_active) THEN Val(is_active) ELSE @]]]

update_course_allocation(actor, program_id, allocation_id, is_required, semester_order, is_active) ==
    LET r == UpdateAllocationResult(actor, program_id, allocation_id, is_required,
                                    semester_order, is_active) IN
    /\ program_courses' = r.program_courses
    /\ resp' = Response("update_course_allocation", r.status, r.detail)
    /\ UNCHANGED <<requests, now, admitted, semesters, cookie, sessions, departments, users, programs, courses, program_lecturers, enrollments>>

\* DELETE /api/academic/programs/{program_id}/courses/{allocation_id}
RemoveAllocationResult(actor, program_id, allocation_id) ==
    LET pc == program_courses
        a == AllocationOfProgram(pc, program_id, allocation_id)
        Refuse(status, detail) ==
            [status |-> status, detail |-> detail, program_courses |-> pc]
    IN
    IF UserRole[actor] # "admin" THEN Refuse(403, "Access denied")
    ELSE IF a = None THEN Refuse(404, "Course allocation not found")
    ELSE [status |-> 200, detail |-> "Course allocation removed successfully",
          program_courses |-> [pc EXCEPT ![a].is_active = FALSE]]

remove_course_allocation(actor, program_id, allocation_id) ==
    LET r == RemoveAllocationResult(actor, program_id, allocation_id) IN
    /\ program_courses' = r.program_courses
    /\ resp' = Response("remove_course_allocation", r.status, r.detail)
    /\ UNCHANGED <<requests, now, admitted, semesters, cookie, sessions, departments, users, programs, courses, program_lecturers, enrollments>>

----------------------------------------------------------------------------
(* Program update (academic_service.py update_program, main.py update_program) *)

\* [int(lect_id) for lect_id in data["lecturers"] if lect_id], then the ids
\* for which a User with role LECTURER exists
AssignableLecturers(lecturers) ==
    Filter(lecturers, {u \in UserIds : IsLecturer(u)})

\* "Clear existing lecturer assignments for this program"
ClearAssignments(pl, program_id) ==
    [i \in DOMAIN pl |->
        IF pl[i].program_id = program_id
        THEN [pl[i] EXCEPT !.is_active = FALSE] ELSE pl[i]]

\* "Create new assignments": one ProgramLecturer(program_id, lecturer_id,
\* role="lecturer") per listed lecturer; is_active takes the column default
NewAssignments(program_id, lecturers) ==
    [i \in DOMAIN AssignableLecturers(lecturers) |->
        [program_id |-> program_id,
         lecturer_id |-> AssignableLecturers(lecturers)[i],
         role |-> "lecturer", is_active |-> TRUE, assigned_by_id |-> None]]

\* "Check if new code conflicts with existing programs"
ProgramCodeConflict(progs, program_id, data) ==
    /\ Has(data.code)
    /\ Upper(Val(data.code)) # progs[program_id].code
    /\ \E i \in DOMAIN progs : /\ i # program_id
                               /\ progs[i].code = Upper(Val(data.code))

\* AcademicService.update_program: error message ("" on success) and the
\* committed tables
update_program_service(progs, pl, program_id, data) ==
    IF program_id \notin DOMAIN progs THEN
       [error |-> "Program not found", programs |-> progs, program_lecturers |-> pl]
    ELSE IF ProgramCodeConflict(progs, program_id, data) THEN
       [error |-> "Program code already exists", programs |-> progs,
        program_lecturers |-> pl]
    ELSE
       [error |-> "",
        programs |-> [progs EXCEPT ![program_id] =
            [@ EXCEPT !.code = IF Has(data.code) THEN Upper(Val(data.code)) ELSE @,
                      !.department_id = IF Has(data.department_id)
                                        THEN Val(data.department_id) ELSE @,
                      !.is_active = IF Has(data.is_active)
                                    THEN Val(data.is_active) ELSE @]],
        program_lecturers |->
            IF Has(data.lecturers)
            THEN ClearAssignments(pl, program_id)
                 \o NewAssignments(program_id, Val(data.lecturers))
            ELSE pl]

\* PUT /api/academic/programs/{program_id}: the admin check, then the service;
\* every exception, the 403 included, is answered with 500
UpdateProgramResult(actor, program_id, data) ==
    LET r == update_program_service(programs, program_lecturers, program_id, data)
    IN
    IF UserRole[actor] # "admin" THEN
       [status |-> 500, detail |-> "Access denied", programs |-> programs,
        program_lecturers |-> program_lecturers]
    ELSE IF r.error # "" THEN
       [status |-> 500, detail |-> r.error, programs |-> programs,
        program_lecturers |-> program_lecturers]
    ELSE
       [status |-> 200, detail |-> "Program updated successfully",
        programs |-> r.programs, program_lecturers |-> r.program_lecturers]

update_program(actor, program_id, data) ==
    LET r == UpdateProgramResult(actor, program_id, data) IN
    /\ Len(r.program_lecturers) <= MaxProgramLecturers
    /\ programs' = r.programs
    /\ program_lecturers' = r.program_lecturers
    /\ resp' = Response("update_program", r.status, r.detail)
    /\ UNCHANGED <<requests, now, admitted, semesters, cookie, sessions, departments, users, courses, program_courses, enrollments>>

----------------------------------------------------------------------------
(* Enrollment (academic_service.py enroll_student, delete_program;           *)
(* main.py enroll_in_course, update_enrollment, delete_program, delete_course) *)

\* values of the EnrollmentStatus enum
EnrollmentStatuses == {"enrolled", "completed", "dropped"}

\* str.lower() on the status strings of the model
Lower(x) ==
    CASE x = "ENROLLED" -> "enrolled"
      [] x = "Dropped" -> "dropped"
      [] x = "COMPLETED" -> "completed"
      [] x = "ADMIN" -> "admin"
      [] x = "Alice.Smith@Student.LMS.edu" -> "alice.smith@student.lms.edu"
      [] OTHER -> x

\* the lookup of a faulty enroll_student: ENROLLED rows only
ExistingEnrollment_EnrolledOnly(enr, student_id, course_id) ==
    LET S == {i \in DOMAIN enr : /\ enr[i].student_id = student_id
                                 /\ enr[i].course_id = course_id
                                 /\ enr[i].status = "enrolled"}
    IN IF S = {} THEN None ELSE Min(S)

\* db.query(Enrollment).filter(student_id, course_id).first(): id or None
ExistingEnrollment(enr, student_id, course_id) ==
    LET S == {i \in DOMAIN enr : /\ enr[i].student_id = student_id
                                 /\ enr[i].course_id = course_id}
    IN IF S = {} THEN None ELSE Min(S)

\* len([e for e in course.enrollments if e.status == EnrollmentStatus.ENROLLED])
EnrolledCount(enr, course_id) ==
    Cardinality({i \in DOMAIN enr : /\ enr[i].course_id = course_id
                                    /\ enr[i].status = "enrolled"})

\* the capacity check of a faulty enroll_student: > for >=
CourseFull_Exclusive(enr, crs, course_id) ==
    EnrolledCount(enr, course_id) > crs[course_id].max_capacity

\* "Check course capacity"
CourseFull(enr, crs, course_id) ==
    EnrolledCount(enr, course_id) >= crs[course_id].max_capacity

\* a faulty enroll_student: the capacity is checked before the existing row
enroll_student_CapacityFirst(enr, crs, student_id, course_id, program_id) ==
    IF course_id \notin DOMAIN crs THEN
       [error |-> "Course not found", enrollments |-> enr]
    ELSE IF CourseFull(enr, crs, course_id) THEN
       [error |-> "Course is at full capacity", enrollments |-> enr]
    ELSE IF ExistingEnrollment(enr, student_id, course_id) # None THEN
       [error |-> "Student is already enrolled in this course", enrollments |-> enr]
    ELSE
       [error |-> "",
        enrollments |-> Append(enr,
            [student_id |-> student_id, course_id |-> course_id,
             program_id |-> program_id, status |-> "enrolled", is_active |-> TRUE])]

\* AcademicService.enroll_student: error message ("" on success) and the
\* committed table
enroll_student(enr, crs, student_id, course_id, program_id) ==
    IF ExistingEnrollment(enr, student_id, course_id) # None THEN
       [error |-> "Student is already enrolled in this course", enrollments |-> enr]
    ELSE IF course_id \notin DOMAIN crs THEN
       [error |-> "Course not found", enrollments |-> enr]
    ELSE IF CourseFull(enr, crs, course_id) THEN
       [error |-> "Course is at full capacity", enrollments |-> enr]
    ELSE
       [error |-> "",
        enrollments |-> Append(enr,
            [student_id |-> student_id, course_id |-> course_id,
             program_id |-> program_id, status |-> "enrolled", is_active |-> TRUE])]

\* POST /api/student/enroll: the student is the current user; every
\* exception, the 403 and 400 included, is answered with 500
EnrollInCourseResult(actor, course_id, program_id) ==
    LET r == enroll_student(enrollments, courses, actor, course_id, program_id)
        Refuse(detail) ==
            [status |-> 500, detail |-> detail, enrollments |-> enrollments]
    IN
    IF UserRole[actor] # "student" THEN Refuse("Access denied")
    ELSE IF course_id = None \/ program_id = None
         THEN Refuse("course_id and program_id are required")
    ELSE IF r.error # "" THEN Refuse(r.error)
    ELSE [status |-> 200, detail |-> "Student enrolled successfully",
          enrollments |-> r.enrollments]

enroll_in_course(actor, course_id, program_id) ==
    LET r == EnrollInCourseResult(actor, course_id, program_id) IN
    /\ Len(r.enrollments) <= MaxEnrollments
    /\ enrollments' = r.enrollments
    /\ resp' = Response("enroll_in_course", r.status, r.detail)
    /\ UNCHANGED <<requests, now, admitted, semesters, cookie, sessions, departments, users, programs, courses, program_lecturers, program_courses>>

\* PUT /api/enrollments/{enrollment_id}: status is the optional "status" key
\* of the request; every exception is answered with 500
UpdateEnrollmentResult(actor, enrollment_id, status) ==
    LET Refuse(detail) ==
            [status |-> 500, detail |-> detail, enrollments |-> enrollments]
    IN
    IF UserRole[actor] # "admin" THEN Refuse("Access denied")
    ELSE IF enrollment_id \notin DOMAIN enrollments THEN Refuse("Enrollment not found")
    ELSE IF Has(status) /\ Lower(Val(status)) \notin EnrollmentStatuses
         THEN Refuse("Invalid enrollment status")
    ELSE [status |-> 200, detail |-> "Enrollment updated successfully",
          enrollments |-> [enrollments EXCEPT ![enrollment_id].status =
                              IF Has(status) THEN Lower(Val(status)) ELSE @]]

update_enrollment(actor, enrollment_id, status) ==
    LET r == UpdateEnrollmentResult(actor, enrollment_id, status) IN
    /\ enrollments' = r.enrollments
    /\ resp' = Response("update_enrollment", r.status, r.detail)
    /\ UNCHANGED <<requests, now, admitted, semesters, cookie, sessions, departments, users, programs, courses, program_lecturers, program_courses>>

\* a faulty cascade: the status is set, is_active is left as it was
DropEnrollments_StatusOnly(enr, rows) ==
    [i \in DOMAIN enr |->
        IF i \in rows THEN [enr[i] EXCEPT !.status = "dropped"] ELSE enr[i]]

\* "Force delete: deactivate all enrollments" of a program / of a course
DropEnrollments(enr, rows) ==
    [i \in DOMAIN enr |->
        IF i \in rows
        THEN [enr[i] EXCEPT !.status = "dropped", !.is_active = FALSE]
        ELSE enr[i]]

\* AcademicService.delete_program: error message ("" on success) and the
\* committed tables
delete_program_service(progs, enr, program_id, force) ==
    LET of_program == {i \in DOMAIN enr : enr[i].program_id = program_id}
        active_enrollments ==
            Cardinality({i \in of_program : enr[i].status = "enrolled"})
    IN
    IF program_id \notin DOMAIN progs THEN
       [error |-> "Program not found", programs |-> progs, enrollments |-> enr]
    ELSE IF ~force /\ active_enrollments > 0 THEN
       [error |-> "Cannot delete program with active enrollments",
        programs |-> progs, enrollments |-> enr]
    ELSE
       [error |-> "",
        programs |-> [progs EXCEPT ![program_id].is_active = FALSE],
        enrollments |-> IF force THEN DropEnrollments(enr, of_program) ELSE enr]

\* DELETE /api/academic/programs/{program_id}
DeleteProgramResult(actor, program_id, force) ==
    LET r == delete_program_service(programs, enrollments, program_id, force)
        Refuse(detail) ==
            [status |-> 500, detail |-> detail, programs |-> programs,
             enrollments |-> enrollments]
    IN
    IF UserRole[actor] # "admin" THEN Refuse("Access denied")
    ELSE IF r.error # "" THEN Refuse(r.error)
    ELSE [status |-> 200, detail |-> "Program deleted successfully",
          programs |-> r.programs, enrollments |-> r.enrollments]

delete_program(actor, program_id, force) ==
    LET r == DeleteProgramResult(actor, program_id, force) IN
    /\ programs' = r.programs
    /\ enrollments' = r.enrollments
    /\ resp' = Response("delete_program", r.status, r.detail)
    /\ UNCHANGED <<requests, now, admitted, semesters, cookie, sessions, departments, users, courses, program_lecturers, program_courses>>

\* DELETE /api/courses/{course_id}
DeleteCourseResult(actor, course_id, force) ==
    LET of_course == {i \in DOMAIN enrollments : enrollments[i].course_id = course_id}
        Refuse(detail) ==
            [status |-> 500, detail |-> detail, courses |-> courses,
             enrollments |-> enrollments]
    IN
    IF UserRole[actor] # "admin" THEN Refuse("Access denied")
    ELSE IF course_id \notin DOMAIN courses THEN Refuse("Course not found")
    ELSE [status |-> 200, detail |-> "Course deleted successfully",
          courses |-> [courses EXCEPT ![course_id].is_active = FALSE],
          enrollments |-> IF force THEN DropEnrollments(enrollments, of_course)
                          ELSE enrollments]

delete_course(actor, course_id, force) ==
    LET r == DeleteCourseResult(actor, course_id, force) IN
    /\ courses' = r.courses
    /\ enrollments' = r.enrollments
    /\ resp' = Response("delete_course", r.status, r.detail)
    /\ UNCHANGED <<requests, now, admitted, semesters, cookie, sessions, departments, users, programs, program_lecturers, program_courses>>

----------------------------------------------------------------------------
(* Course update (main.py update_course) *)

\* PUT /api/courses/{course_id}: the request carries the optional keys
\* "code", "department_id", "lecturer_id", "max_capacity" and "is_active";
\* each key present is assigned to the course (no check of the new values);
\* the 404 and the 403 are passed on as they are
UpdateCourseResult(actor, course_id, request) ==
    LET Refuse(status, detail) ==
            [status |-> status, detail |-> detail, courses |-> courses]
        Set(field, old) == IF Has(request[field]) THEN Val(request[field]) ELSE old
    IN
    IF course_id \notin DOMAIN courses THEN Refuse(404, "Course not found")
    ELSE IF UserRole[actor] = "lecturer" /\ courses[course_id].lecturer_id # actor
         THEN Refuse(403, "Access denied")
    ELSE IF UserRole[actor] \notin {"admin", "lecturer"}
         THEN Refuse(403, "Access denied")
    ELSE [status |-> 200, detail |-> "Course updated successfully",
          courses |-> [courses EXCEPT ![course_id] =
              [code |-> Set("code", @.code),
               department_id |-> Set("department_id", @.department_id),
               lecturer_id |-> Set("lecturer_id", @.lecturer_id),
               max_capacity |-> Set("max_capacity", @.max_capacity),
               is_active |-> Set("is_active", @.is_active)]]]

update_course(actor, course_id, request) ==
    LET r == UpdateCourseResult(actor, course_id, request) IN
    /\ courses' = r.courses
    /\ resp' = Response("update_course", r.status, r.detail)
    /\ UNCHANGED <<requests, now, admitted, semesters, cookie, sessions, departments, programs, users, program_lecturers,
                   program_courses, enrollments>>

----------------------------------------------------------------------------
(* Department (academic_service.py create_department, update_department,    *)
(* delete_department; main.py handlers)                                     *)

\* InputValidator.validate_code: "" when the code is accepted, else the detail
ValidateCodeError(code) ==
    IF ~Has(code) THEN "code must be a string"
    ELSE IF ~CodePattern(Upper(Strip(Val(code))))
         THEN "code must contain only letters, numbers, hyphens, and underscores"
    ELSE ""

\* db.add(department): the table takes the row; the uniqueness of a code is
\* the service's check among active rows, the table declares none
InsertDepartment(depts, row) == Append(depts, row)

\* the uniqueness check of a faulty create_department: any row, active or not
ActiveCodeOwner_AnyActivity(depts, code) ==
    IF \E i \in DOMAIN depts : depts[i].code = Upper(code)
    THEN Min({i \in DOMAIN depts : depts[i].code = Upper(code)})
    ELSE None

\* the active department carrying the upper-cased code (.first()), or None
ActiveCodeOwner(depts, code) ==
    IF \E i \in DOMAIN depts : depts[i].code = Upper(code) /\ depts[i].is_active
    THEN Min({i \in DOMAIN depts : depts[i].code = Upper(code) /\ depts[i].is_active})
    ELSE None

\* AcademicService.create_department: data carries "code" and, optionally,
\* "is_active"; error message ("" on success) and the committed table
create_department_service(depts, data) ==
    IF ActiveCodeOwner(depts, data.code) # None THEN
       [error |-> "Department code '" \o Upper(data.code)
                    \o "' already exists in active departments",
        departments |-> depts]
    ELSE
       [error |-> "",
        departments |-> InsertDepartment(depts,
            [code |-> Upper(data.code),
             is_active |-> IF Has(data.is_active) THEN Val(data.is_active)
                           ELSE TRUE])]

\* POST /api/academic/departments: the request is validated (name required,
\* code stripped, upper-cased and matched), the validated data carry no
\* "is_active"; every exception is answered with 500
CreateDepartmentResult(actor, request) ==
    LET Refuse(detail) ==
            [status |-> 500, detail |-> detail, departments |-> departments]
        r == create_department_service(departments,
                 [code |-> Upper(Strip(Val(request.code))), is_active |-> <<>>])
    IN
    IF UserRole[actor] # "admin" THEN Refuse("Access denied")
    ELSE IF ~Has(request.name) THEN Refuse("name is required")
    ELSE IF ValidateCodeError(request.code) # ""
         THEN Refuse(ValidateCodeError(request.code))
    ELSE IF r.error # "" THEN Refuse(r.error)
    ELSE [status |-> 200, detail |-> "Department created successfully",
          departments |-> r.departments]

create_department(actor, request) ==
    LET r == CreateDepartmentResult(actor, request) IN
    /\ Len(r.departments) <= MaxDepartments
    /\ departments' = r.departments
    /\ resp' = Response("create_department", r.status, r.detail)
    /\ UNCHANGED <<requests, now, admitted, semesters, cookie, sessions, programs, courses, users, program_lecturers, program_courses,
                   enrollments>>

\* AcademicService.update_department: data carries the optional keys "code"
\* and "is_active"; the code conflict is looked up among all other rows
update_department_service(depts, department_id, data) ==
    IF department_id \notin DOMAIN depts THEN
       [error |-> "Department not found", departments |-> depts]
    ELSE IF /\ Has(data.code)
            /\ Upper(Val(data.code)) # depts[department_id].code
            /\ \E i \in DOMAIN depts :
                  i # department_id /\ depts[i].code = Upper(Val(data.code))
    THEN [error |-> "Department code already exists", departments |-> depts]
    ELSE
       [error |-> "",
        departments |-> [depts EXCEPT
            ![department_id].code =
                IF Has(data.code) THEN Upper(Val(data.code)) ELSE @,
            ![department_id].is_active =
                IF Has(data.is_active) THEN Val(data.is_active) ELSE @]]

\* PUT /api/academic/departments/{department_id}
UpdateDepartmentResult(actor, department_id, data) ==
    LET r == update_department_service(departments, department_id, data)
        Refuse(detail) ==
            [status |-> 500, detail |-> detail, departments |-> departments]
    IN
    IF UserRole[actor] # "admin" THEN Refuse("Access denied")
    ELSE IF r.error # "" THEN Refuse(r.error)
    ELSE [status |-> 200, detail |-> "Department updated successfully",
          departments |-> r.departments]

update_department(actor, department_id, data) ==
    LET r == UpdateDepartmentResult(actor, department_id, data) IN
    /\ departments' = r.departments
    /\ resp' = Response("update_department", r.status, r.detail)
    /\ UNCHANGED <<requests, now, admitted, semesters, cookie, sessions, programs, courses, users, program_lecturers, program_courses,
                   enrollments>>

\* a faulty count: every row of the department, active or not
ActiveCount_AllRows(rows, department_id) ==
    Cardinality({i \in DOMAIN rows : rows[i].department_id = department_id})

\* .filter(department_id == department_id, is_active == True).count() over
\* the programs or the courses
ActiveCount(rows, department_id) ==
    Cardinality({i \in DOMAIN rows :
        rows[i].department_id = department_id /\ rows[i].is_active})

\* a faulty cascade: every row is deactivated, whatever its department
DeactivateOfDepartment_All(rows, department_id) ==
    [i \in DOMAIN rows |-> [rows[i] EXCEPT !.is_active = FALSE]]

\* "Deactivate all programs / all courses in this department"
DeactivateOfDepartment(rows, department_id) ==
    [i \in DOMAIN rows |->
        IF rows[i].department_id = department_id
        THEN [rows[i] EXCEPT !.is_active = FALSE] ELSE rows[i]]

\* "Unassign all lecturers from this department"
DetachUsers(usrs, department_id) ==
    [u \in DOMAIN usrs |->
        IF usrs[u].department_id = department_id
        THEN [usrs[u] EXCEPT !.department_id = None] ELSE usrs[u]]

\* AcademicService.assign_lecturer_to_department: error message ("" on
\* success) and the committed users
assign_lecturer_to_department_service(depts, usrs, lecturer_id, department_id) ==
    IF ~IsLecturer(lecturer_id) THEN
       [error |-> "Lecturer not found", users |-> usrs]
    ELSE IF department_id \notin DOMAIN depts THEN
       [error |-> "Department not found", users |-> usrs]
    ELSE [error |-> "",
          users |-> [usrs EXCEPT ![lecturer_id].department_id = department_id]]

\* POST /api/academic/departments/{department_id}/assign-lecturer
AssignLecturerToDepartmentResult(actor, department_id, lecturer_id) ==
    LET r == assign_lecturer_to_department_service(departments, users,
                                                   lecturer_id, department_id)
        Refuse(detail) == [status |-> 500, detail |-> detail, users |-> users]
    IN
    IF UserRole[actor] # "admin" THEN Refuse("Access denied")
    ELSE IF lecturer_id = None THEN Refuse("lecturer_id is required")
    ELSE IF r.error # "" THEN Refuse(r.error)
    ELSE [status |-> 200, detail |-> "Lecturer assigned to department",
          users |-> r.users]

assign_lecturer_to_department(actor, department_id, lecturer_id) ==
    LET r == AssignLecturerToDepartmentResult(actor, department_id, lecturer_id) IN
    /\ users' = r.users
    /\ resp' = Response("assign_lecturer_to_department", r.status, r.detail)
    /\ UNCHANGED <<requests, now, admitted, semesters, cookie, sessions, departments, programs, courses, program_lecturers,
                   program_courses, enrollments>>

\* AcademicService.can_delete_department: the dict it returns
can_delete_department(depts, progs, crs, department_id) ==
    LET active_programs == ActiveCount(progs, department_id)
        active_courses == ActiveCount(crs, department_id)
    IN
    IF department_id \notin DOMAIN depts THEN
       [can_delete |-> FALSE, reason |-> "Department not found",
        active_programs |-> None, active_courses |-> None]
    ELSE IF active_programs > 0 \/ active_courses > 0 THEN
       [can_delete |-> FALSE,
        reason |-> "Department has " \o Str(active_programs)
                   \o " active program(s) and " \o Str(active_courses)
                   \o " active course(s)",
        active_programs |-> active_programs, active_courses |-> active_courses]
    ELSE
       [can_delete |-> TRUE, reason |-> "Department can be safely deleted",
        active_programs |-> None, active_courses |-> None]

\* GET /api/academic/departments/{department_id}/can-delete: reads only
check_department_deletion(actor, department_id) ==
    /\ resp' = IF UserRole[actor] # "admin"
               THEN Response("check_department_deletion", 500, "Access denied")
               ELSE Response("check_department_deletion", 200,
                        can_delete_department(departments, programs, courses,
                                              department_id).reason)
    /\ UNCHANGED <<requests, now, admitted, semesters, cookie, sessions, departments, programs, courses, users, program_lecturers,
                   program_courses, enrollments>>

\* AcademicService.delete_department: soft delete; unforced it is refused
\* while the department has an active program or course, forced it first
\* deactivates the programs and courses of the department and detaches its users
delete_department_service(depts, progs, crs, usrs, department_id, force) ==
    LET active_programs == ActiveCount(progs, department_id)
        active_courses == ActiveCount(crs, department_id)
        Keep(error) == [error |-> error, departments |-> depts,
                        programs |-> progs, courses |-> crs, users |-> usrs]
    IN
    IF department_id \notin DOMAIN depts THEN Keep("Department not found")
    ELSE IF ~force /\ (active_programs > 0 \/ active_courses > 0)
         THEN Keep("Cannot delete department. It has " \o Str(active_programs)
                   \o " active program(s) and " \o Str(active_courses)
                   \o " active course(s). Please deactivate or move them first.")
    ELSE
       [error |-> "",
        departments |-> [depts EXCEPT ![department_id].is_active = FALSE],
        programs |-> IF force THEN DeactivateOfDepartment(progs, department_id)
                     ELSE progs,
        courses |-> IF force THEN DeactivateOfDepartment(crs, department_id)
                    ELSE crs,
        users |-> IF force THEN DetachUsers(usrs, department_id) ELSE usrs]

\* DELETE /api/academic/departments/{department_id}
DeleteDepartmentResult(actor, department_id, force) ==
    LET r == delete_department_service(departments, programs, courses, users,
                                       department_id, force)
        Refuse(detail) ==
            [status |-> 500, detail |-> detail, departments |-> departments,
             programs |-> programs, courses |-> courses, users |-> users]
    IN
    IF UserRole[actor] # "admin" THEN Refuse("Access denied")
    ELSE IF r.error # "" THEN Refuse(r.error)
    ELSE [status |-> 200, detail |-> "Department deleted successfully",
          departments |-> r.departments, programs |-> r.programs,
          courses |-> r.courses, users |-> r.users]

delete_department(actor, department_id, force) ==
    LET r == DeleteDepartmentResult(actor, department_id, force) IN
    /\ departments' = r.departments
    /\ programs' = r.programs
    /\ courses' = r.courses
    /\ users' = r.users
    /\ resp' = Response("delete_department", r.status, r.detail)
    /\ UNCHANGED <<requests, now, admitted, semesters, cookie, sessions, program_lecturers, program_courses, enrollments>>

----------------------------------------------------------------------------
(* Forced deletion write by write (academic_service.py delete_department,   *)
(* delete_program): the writes go to the objects of the session and reach   *)
(* the store with the one db.commit() that ends the method; a request that  *)
(* raises before it is answered with 500 and its session is closed          *)

\* the tables a cascade writes, as one record
Stored ==
    [departments |-> departments, programs |-> programs, courses |-> courses,
     users |-> users, enrollments |-> enrollments]

\* the ids of the set S in ascending order
RECURSIVE Ascending(_)
Ascending(S) ==
    IF S = {} THEN <<>>
    ELSE <<Min(S)>> \o Ascending(S \ {Min(S)})

TableWrites(table, S) ==
    LET ids == Ascending(S) IN [k \in DOMAIN ids |-> <<table, ids[k]>>]

\* the writes of delete_department(force=True), in the order of the method
DepartmentCascadeWrites(t, department_id) ==
    TableWrites("programs", {i \in DOMAIN t.programs :
                                t.programs[i].department_id = department_id})
    \o TableWrites("courses", {i \in DOMAIN t.courses :
                                  t.courses[i].department_id = department_id})
    \o TableWrites("users", {u \in DOMAIN t.users :
                                t.users[u].department_id = department_id})
    \o <<<<"departments", department_id>>>>

\* the writes of delete_program(force=True), in the order of the method
ProgramCascadeWrites(t, program_id) ==
    TableWrites("enrollments", {i \in DOMAIN t.enrollments :
                                   t.enrollments[i].program_id = program_id})
    \o <<<<"programs", program_id>>>>

\* one write of a cascade applied to the objects of the session
ApplyWrite(t, w) ==
    LET i == w[2] IN
    CASE w[1] = "programs" -> [t EXCEPT !.programs[i].is_active = FALSE]
      [] w[1] = "courses" -> [t EXCEPT !.courses[i].is_active = FALSE]
      [] w[1] = "users" -> [t EXCEPT !.users[i].department_id = None]
      [] w[1] = "departments" -> [t EXCEPT !.departments[i].is_active = FALSE]
      [] w[1] = "enrollments" ->
            [t EXCEPT !.enrollments[i].status = "dropped",
                      !.enrollments[i].is_active = FALSE]

\* a faulty session: each write is committed as it is made
StoreAfterWrite_CommitEach(stored, session_tables) == session_tables

\* the store after a write to the session: autoflush and autocommit are off,
\* the write stays with the session
StoreAfterWrite(stored, session_tables) == stored

SetStored(t) ==
    /\ departments' = t.departments
    /\ programs' = t.programs
    /\ courses' = t.courses
    /\ users' = t.users
    /\ enrollments' = t.enrollments

\* the request arrives: role check and lookup of the parent row; the session
\* holds the rows as loaded and the writes still to make
begin_forced_delete(s, actor, op, id) ==
    LET found == IF op = "delete_department" THEN id \in DOMAIN departments
                 ELSE id \in DOMAIN programs
        writes == IF op = "delete_department"
                  THEN DepartmentCascadeWrites(Stored, id)
                  ELSE ProgramCascadeWrites(Stored, id)
    IN
    /\ sessions[s] = Idle
    /\ IF UserRole[actor] = "admin" /\ found
       THEN /\ sessions' = [sessions EXCEPT ![s] =
                   [op |-> op, id |-> id, writes |-> writes, tables |-> Stored]]
            /\ UNCHANGED resp
       ELSE /\ resp' = Response(op, 500,
                   IF UserRole[actor] # "admin" THEN "Access denied"
                   ELSE IF op = "delete_department" THEN "Department not found"
                   ELSE "Program not found")
            /\ UNCHANGED sessions
    /\ UNCHANGED <<requests, now, admitted, semesters, cookie, departments, programs, courses, users, program_lecturers,
                   program_courses, enrollments>>

\* the next write of the cascade
forced_delete_write(s) ==
    /\ sessions[s] # Idle
    /\ sessions[s].writes # <<>>
    /\ LET t == ApplyWrite(sessions[s].tables, Head(sessions[s].writes)) IN
       /\ sessions' = [sessions EXCEPT ![s].tables = t,
                                       ![s].writes = Tail(sessions[s].writes)]
       /\ SetStored(StoreAfterWrite(Stored, t))
    /\ UNCHANGED <<requests, now, admitted, semesters, cookie, program_lecturers, program_courses, resp>>

\* db.commit() after the last write
forced_delete_commit(s) ==
    /\ sessions[s] # Idle
    /\ sessions[s].writes = <<>>
    /\ SetStored(sessions[s].tables)
    /\ resp' = Response(sessions[s].op, 200,
                  IF sessions[s].op = "delete_department"
                  THEN "Department deleted successfully"
                  ELSE "Program deleted successfully")
    /\ sessions' = [sessions EXCEPT ![s] = Idle]
    /\ UNCHANGED <<requests, now, admitted, semesters, cookie, program_lecturers, program_courses>>

\* an exception at a query, at a write or at the commit: except Exception
\* answers 500, get_db closes the session and what it held is gone
forced_delete_fail(s) ==
    /\ sessions[s] # Idle
    /\ resp' = Response(sessions[s].op, 500, "Failed to delete")
    /\ sessions' = [sessions EXCEPT ![s] = Idle]
    /\ UNCHANGED <<requests, now, admitted, semesters, cookie, departments, programs, courses, users, program_lecturers,
                   program_courses, enrollments>>

----------------------------------------------------------------------------
(* Check-then-act handlers statement by statement: each SELECT reads the    *)
(* store as it is when the statement runs, the writes are made to the       *)
(* objects of the session and reach the store at db.commit(); between two   *)
(* statements another process (a worker, the script) may commit.  A         *)
(* session holds the rows as it loaded them, and its UPDATE of a row        *)
(* carries only the attributes whose value differs from the loaded one      *)

\* Workers serve requests in the slots; the script fix_program_assignments.py
\* runs as a process of its own, with a session of its own
Script == 3
Processes == Slots \cup {Script}

\* a request or a run of the script is past some of its statements
InFlight(s, op) == sessions[s] # Idle /\ sessions[s].op = op

\* the request of the slot is at the statement pc
At(s, op, pc) == InFlight(s, op) /\ sessions[s].pc = pc

\* the UPDATE of a ProgramLecturer row at the flush: the attributes the
\* session changed on the object it loaded; the others keep the stored value
FlushAssignment(stored, loaded, changed) ==
    [stored EXCEPT
        !.is_active = IF changed.is_active # loaded.is_active
                      THEN changed.is_active ELSE @,
        !.role = IF changed.role # loaded.role THEN changed.role ELSE @,
        !.assigned_by_id = IF changed.assigned_by_id # loaded.assigned_by_id
                           THEN changed.assigned_by_id ELSE @]

\* the UPDATE of a ProgramCourse row at the flush
FlushAllocation(stored, loaded, changed) ==
    [stored EXCEPT
        !.is_active = IF changed.is_active # loaded.is_active
                      THEN changed.is_active ELSE @,
        !.is_required = IF changed.is_required # loaded.is_required
                        THEN changed.is_required ELSE @,
        !.semester_order = IF changed.semester_order # loaded.semester_order
                           THEN changed.semester_order ELSE @,
        !.allocated_by_id = IF changed.allocated_by_id # loaded.allocated_by_id
                            THEN changed.allocated_by_id ELSE @]

\* a faulty write that looks the pair up again before it inserts
AssignWrite_LooksAgain(pl, session) ==
    IF ExistingAssignment(pl, session.program_id, session.lecturer_id) # None
    THEN [pl EXCEPT ![ExistingAssignment(pl, session.program_id, session.lecturer_id)] =
             ReactivateAssignment(@, session.role, session.actor)]
    ELSE Append(pl, [program_id |-> session.program_id,
                     lecturer_id |-> session.lecturer_id, role |-> session.role,
                     is_active |-> TRUE, assigned_by_id |-> session.actor])

\* assign_lecturer_to_program after its checks: the row read as existing is
\* reactivated (the UPDATE carries what the handler changed on the loaded
\* row), or a new row is inserted
AssignWrite(pl, session) ==
    IF session.existing # None
    THEN [pl EXCEPT ![session.existing] =
             FlushAssignment(@, session.loaded,
                ReactivateAssignment(session.loaded, session.role, session.actor))]
    ELSE Append(pl, [program_id |-> session.program_id,
                     lecturer_id |-> session.lecturer_id, role |-> session.role,
                     is_active |-> TRUE, assigned_by_id |-> session.actor])

\* the checks of assign_lecturer_to_program: a refusal is answered at once,
\* otherwise the session keeps the request and the row it found
assign_lecturer_read(s, actor, program_id, lecturer_id, role) ==
    LET r == AssignLecturerResult(actor, program_id, lecturer_id, role)
        existing == ExistingAssignment(program_lecturers, program_id, lecturer_id)
    IN
    /\ sessions[s] = Idle
    /\ IF r.status # 200
       THEN /\ resp' = Response("assign_lecturer_to_program", r.status, r.detail)
            /\ UNCHANGED sessions
       ELSE /\ sessions' = [sessions EXCEPT ![s] =
                   [op |-> "assign_lecturer_to_program", actor |-> actor,
                    program_id |-> program_id, lecturer_id |-> lecturer_id,
                    role |-> role, existing |-> existing,
                    loaded |-> IF existing = None THEN None
                               ELSE program_lecturers[existing]]]
            /\ UNCHANGED resp
    /\ UNCHANGED <<requests, now, admitted, semesters, cookie, departments, programs, courses, users, program_lecturers,
                   program_courses, enrollments>>

\* the write of assign_lecturer_to_program and db.commit()
assign_lecturer_commit(s) ==
    /\ InFlight(s, "assign_lecturer_to_program")
    /\ Len(AssignWrite(program_lecturers, sessions[s])) <= MaxProgramLecturers
    /\ program_lecturers' = AssignWrite(program_lecturers, sessions[s])
    /\ resp' = Response("assign_lecturer_to_program", 200,
                  IF sessions[s].existing # None
                  THEN "Lecturer assignment reactivated successfully"
                  ELSE "Lecturer assigned to program successfully")
    /\ sessions' = [sessions EXCEPT ![s] = Idle]
    /\ UNCHANGED <<requests, now, admitted, semesters, cookie, departments, programs, courses, users, program_courses,
                   enrollments>>

\* allocate_course_to_program after its checks: the row read as existing is
\* reactivated, or a new row is inserted
AllocateWrite(pc, session) ==
    IF session.existing # None
    THEN [pc EXCEPT ![session.existing] =
             FlushAllocation(@, session.loaded,
                ReactivateAllocation(session.loaded, session.is_required,
                                     session.semester_order, session.actor))]
    ELSE Append(pc, [program_id |-> session.program_id,
                     course_id |-> session.course_id,
                     is_required |-> session.is_required,
                     semester_order |-> session.semester_order,
                     is_active |-> TRUE, allocated_by_id |-> session.actor])

\* the checks of allocate_course_to_program and the lookup of the allocation
allocate_course_read(s, actor, program_id, course_id, is_required, semester_order) ==
    LET r == AllocateCourseResult(actor, program_id, course_id, is_required,
                                  semester_order)
        existing == ExistingAllocation(program_courses, program_id, course_id)
    IN
    /\ sessions[s] = Idle
    /\ IF r.status # 200
       THEN /\ resp' = Response("allocate_course_to_program", r.status, r.detail)
            /\ UNCHANGED sessions
       ELSE /\ sessions' = [sessions EXCEPT ![s] =
                   [op |-> "allocate_course_to_program", actor |-> actor,
                    program_id |-> program_id, course_id |-> course_id,
                    is_required |-> is_required,
                    semester_order |-> semester_order, existing |-> existing,
                    loaded |-> IF existing = None THEN None
                               ELSE program_courses[existing]]]
            /\ UNCHANGED resp
    /\ UNCHANGED <<requests, now, admitted, semesters, cookie, departments, programs, courses, users, program_lecturers,
                   program_courses, enrollments>>

\* the write of allocate_course_to_program and db.commit()
allocate_course_commit(s) ==
    /\ InFlight(s, "allocate_course_to_program")
    /\ Len(AllocateWrite(program_courses, sessions[s])) <= MaxProgramCourses
    /\ program_courses' = AllocateWrite(program_courses, sessions[s])
    /\ resp' = Response("allocate_course_to_program", 200,
                  IF sessions[s].existing # None
                  THEN "Course allocation reactivated successfully"
                  ELSE "Course allocated to program successfully")
    /\ sessions' = [sessions EXCEPT ![s] = Idle]
    /\ UNCHANGED <<requests, now, admitted, semesters, cookie, departments, programs, courses, users, program_lecturers,
                   enrollments>>

\* the UPDATE of a Program row at the flush
FlushProgram(stored, loaded, changed) ==
    [stored EXCEPT
        !.code = IF changed.code # loaded.code THEN changed.code ELSE @,
        !.department_id = IF changed.department_id # loaded.department_id
                          THEN changed.department_id ELSE @,
        !.is_active = IF changed.is_active # loaded.is_active
                      THEN changed.is_active ELSE @]

\* update_program with a 'lecturers' list at db.commit(): the rows of the
\* program that were loaded active are set inactive (a row loaded inactive
\* is set to the value it had and is not written), the new rows are inserted
UpdateProgramWrite(pl, session) ==
    [i \in DOMAIN pl |->
        IF i \in session.cleared THEN [pl[i] EXCEPT !.is_active = FALSE]
        ELSE pl[i]]
    \o session.inserts

\* PUT /api/academic/programs/{program_id} up to its commit: the admin
\* check, the lookups of the service and the rows of the program as loaded
update_program_read(s, actor, program_id, data) ==
    LET r == UpdateProgramResult(actor, program_id, data) IN
    /\ sessions[s] = Idle
    /\ IF r.status # 200
       THEN /\ resp' = Response("update_program", r.status, r.detail)
            /\ UNCHANGED sessions
       ELSE /\ sessions' = [sessions EXCEPT ![s] =
                   [op |-> "update_program", program_id |-> program_id,
                    loaded |-> programs[program_id],
                    changed |-> r.programs[program_id],
                    cleared |-> IF Has(data.lecturers)
                                THEN {i \in DOMAIN program_lecturers :
                                        /\ program_lecturers[i].program_id = program_id
                                        /\ program_lecturers[i].is_active}
                                ELSE {},
                    inserts |-> IF Has(data.lecturers)
                                THEN NewAssignments(program_id, Val(data.lecturers))
                                ELSE <<>>]]
            /\ UNCHANGED resp
    /\ UNCHANGED <<requests, now, admitted, semesters, cookie, departments, programs, courses, users, program_lecturers,
                   program_courses, enrollments>>

\* db.commit() of update_program
update_program_commit(s) ==
    /\ InFlight(s, "update_program")
    /\ Len(UpdateProgramWrite(program_lecturers, sessions[s])) <= MaxProgramLecturers
    /\ programs' = [programs EXCEPT ![sessions[s].program_id] =
                        FlushProgram(@, sessions[s].loaded, sessions[s].changed)]
    /\ program_lecturers' = UpdateProgramWrite(program_lecturers, sessions[s])
    /\ resp' = Response("update_program", 200, "Program updated successfully")
    /\ sessions' = [sessions EXCEPT ![s] = Idle]
    /\ UNCHANGED <<requests, now, admitted, semesters, cookie, departments, courses, users, program_courses, enrollments>>

\* a faulty write that counts the ENROLLED rows again before it inserts
EnrollWrite_CountsAgain(enr, crs, session) ==
    IF CourseFull(enr, crs, session.course_id) THEN enr
    ELSE Append(enr, [student_id |-> session.student_id,
                      course_id |-> session.course_id,
                      program_id |-> session.program_id,
                      status |-> "enrolled", is_active |-> TRUE])

\* enroll_student after its checks: db.add(enrollment)
EnrollWrite(enr, crs, session) ==
    Append(enr, [student_id |-> session.student_id,
                 course_id |-> session.course_id,
                 program_id |-> session.program_id,
                 status |-> "enrolled", is_active |-> TRUE])

\* the answer of enroll_in_course to an exception of a statement
EnrollRefused(s, detail) ==
    /\ resp' = Response("enroll_in_course", 500, detail)
    /\ sessions' = [sessions EXCEPT ![s] = Idle]

\* enroll_in_course up to the first statement of enroll_student: the role
\* and the request are checked, then the row of the student in the course is
\* looked up
enroll_read(s, actor, course_id, program_id) ==
    /\ sessions[s] = Idle
    /\ IF UserRole[actor] # "student" THEN EnrollRefused(s, "Access denied")
       ELSE IF course_id = None \/ program_id = None
            THEN EnrollRefused(s, "course_id and program_id are required")
       ELSE IF ExistingEnrollment(enrollments, actor, course_id) # None
            THEN EnrollRefused(s, "Student is already enrolled in this course")
       ELSE /\ sessions' = [sessions EXCEPT ![s] =
                   [op |-> "enroll_in_course", pc |-> "course",
                    student_id |-> actor, course_id |-> course_id,
                    program_id |-> program_id, max_capacity |-> None]]
            /\ UNCHANGED resp
    /\ UNCHANGED <<requests, now, admitted, semesters, cookie, departments, programs, courses, users, program_lecturers,
                   program_courses, enrollments>>

\* db.query(Course).filter(Course.id == course_id).first(): the session
\* holds the course as loaded
enroll_select_course(s) ==
    /\ At(s, "enroll_in_course", "course")
    /\ IF sessions[s].course_id \notin DOMAIN courses
       THEN EnrollRefused(s, "Course not found")
       ELSE /\ sessions' = [sessions EXCEPT
                   ![s].pc = "count",
                   ![s].max_capacity = courses[sessions[s].course_id].max_capacity]
            /\ UNCHANGED resp
    /\ UNCHANGED <<requests, now, admitted, semesters, cookie, departments, programs, courses, users, program_lecturers,
                   program_courses, enrollments>>

\* course.enrollments is loaded and its ENROLLED rows are counted against
\* the max_capacity of the course as loaded
enroll_count(s) ==
    /\ At(s, "enroll_in_course", "count")
    /\ IF EnrolledCount(enrollments, sessions[s].course_id) >= sessions[s].max_capacity
       THEN EnrollRefused(s, "Course is at full capacity")
       ELSE /\ sessions' = [sessions EXCEPT ![s].pc = "commit"]
            /\ UNCHANGED resp
    /\ UNCHANGED <<requests, now, admitted, semesters, cookie, departments, programs, courses, users, program_lecturers,
                   program_courses, enrollments>>

\* db.add(enrollment) and db.commit() of enroll_student
enroll_commit(s) ==
    /\ At(s, "enroll_in_course", "commit")
    /\ Len(EnrollWrite(enrollments, courses, sessions[s])) <= MaxEnrollments
    /\ enrollments' = EnrollWrite(enrollments, courses, sessions[s])
    /\ resp' = Response("enroll_in_course", 200, "Student enrolled successfully")
    /\ sessions' = [sessions EXCEPT ![s] = Idle]
    /\ UNCHANGED <<requests, now, admitted, semesters, cookie, departments, programs, courses, users, program_lecturers,
                   program_courses>>

----------------------------------------------------------------------------
(* Users: the seeded rows, registration, login and logout (routers/auth.py), *)
(* and the administration of users (main.py create_user, update_user).       *)
(* The access_token cookie of the client is cookie: <<>> or <<token>>        *)

MaxUsers == 9

\* the users of create_fresh_seed_data: one admin, three lecturers, three
\* students, none of them in a department
SeedName == <<"System Administrator", "Dr. Sarah Johnson", "Prof. Michael Chen",
              "Dr. Emily Rodriguez", "Alice Smith", "Bob Wilson", "Carol Davis">>
SeedEmail == <<"admin@lms.edu", "sarah.johnson@lms.edu", "michael.chen@lms.edu",
               "emily.rodriguez@lms.edu", "alice.smith@student.lms.edu",
               "bob.wilson@student.lms.edu", "carol.davis@student.lms.edu">>
SeedPassword == <<"admin123", "lecturer123", "lecturer123", "lecturer123",
                  "student123", "student123", "student123">>
SeedRole == <<"admin", "lecturer", "lecturer", "lecturer",
              "student", "student", "student">>

\* html.escape of sanitize_html on the strings of the model
sanitize_html(text) ==
    CASE text = "Tom & Co" -> "Tom &amp; Co"
      [] OTHER -> text

\* EMAIL_PATTERN ^[a-zA-Z0-9._%+-]+@[a-zA-Z0-9.-]+\.[a-zA-Z]{2,}$ on the
\* strings of the model: the addresses match, in small letters or with
\* capitals (the addresses of tests/test_auth.py among them); the padded
\* address holds blanks, and no other string of the model holds an @
EmailPattern(e) ==
    e \in {"admin@lms.edu", "sarah.johnson@lms.edu", "michael.chen@lms.edu",
           "emily.rodriguez@lms.edu", "alice.smith@student.lms.edu",
           "bob.wilson@student.lms.edu", "carol.davis@student.lms.edu",
           "registrar@lms.edu", "newuser@example.com",
           "Alice.Smith@Student.LMS.edu", "test@example.com",
           "wrong@example.com"}

\* validate_required_string: the detail of the HTTPException(400) it raises,
\* "" when it returns (the strings of the model are within MAX_LENGTHS)
validate_required_string_error(value, field_name) ==
    IF value = "" THEN field_name \o " is required"
    ELSE IF Strip(value) = "" THEN field_name \o " cannot be empty"
    ELSE ""

\* validate_required_string: the value it returns
validate_required_string(value) == sanitize_html(Strip(value))

\* validate_email: the value it matches and returns
validate_email(email) == Lower(Strip(email))

\* validate_email: the detail of the HTTPException(400) it raises, or ""
validate_email_error(email) ==
    IF EmailPattern(validate_email(email)) THEN "" ELSE "Invalid email format"

\* AuthManager.hash_password and verify_password
hash_password(password) == <<"hash", password>>
verify_password(password, password_hash) == password_hash = hash_password(password)

\* AuthManager.create_access_token: the token names the user
create_access_token(user_id) == [sub |-> user_id]

\* the user holding an email
UserByEmail(usrs, email) ==
    LET S == {i \in DOMAIN usrs : usrs[i].email = email}
    IN IF S = {} THEN None ELSE Min(S)

\* AuthManager.create_user: the email of a user is unique, a second user with
\* a stored email is a ValueError; the new user is in no department
AuthManager_create_user(usrs, name, email, password, role) ==
    IF UserByEmail(usrs, email) # None
    THEN [error |-> "Email already registered", users |-> usrs, user_id |-> None]
    ELSE [error |-> "",
          users |-> Append(usrs, [name |-> name, email |-> email,
                                  password_hash |-> hash_password(password),
                                  role |-> role, department_id |-> None]),
          user_id |-> Len(usrs) + 1]

\* the role of a user created without one (registration)
DefaultRole == "student"

\* AuthManager.authenticate_user: unknown email or wrong password is a
\* ValueError
authenticate_user(usrs, email, password) ==
    LET u == UserByEmail(usrs, email) IN
    IF u = None \/ ~verify_password(password, usrs[u].password_hash)
    THEN [error |-> "Invalid email or password", user_id |-> None]
    ELSE [error |-> "", user_id |-> u]

\* POST /api/register: the three validations in the order of the dict, then
\* create_user, the token and the cookie; ValueError is answered with 400,
\* every other exception, the HTTPException(400) of the validators included,
\* with 500. set_cookie is <<token>> when the response sets access_token
RegisterResult(usrs, name, email, password) ==
    LET Refuse(status, detail) ==
            [status |-> status, detail |-> detail, users |-> usrs,
             set_cookie |-> <<>>]
        name_error == validate_required_string_error(name, "Name")
        email_error == validate_email_error(email)
        password_error == validate_required_string_error(password, "Password")
        r == AuthManager_create_user(usrs, validate_required_string(name),
                 validate_email(email), validate_required_string(password),
                 DefaultRole)
    IN
    IF name_error # "" THEN Refuse(500, name_error)
    ELSE IF email_error # "" THEN Refuse(500, email_error)
    ELSE IF password_error # "" THEN Refuse(500, password_error)
    ELSE IF r.error # "" THEN Refuse(400, r.error)
    ELSE [status |-> 200, detail |-> "", users |-> r.users,
          set_cookie |-> <<create_access_token(r.user_id)>>]

register(name, email, password) ==
    LET r == RegisterResult(users, name, email, password) IN
    /\ Len(r.users) <= MaxUsers
    /\ users' = r.users
    /\ cookie' = IF Has(r.set_cookie) THEN r.set_cookie ELSE cookie
    /\ resp' = Response("register", r.status, r.detail)
    /\ UNCHANGED <<requests, now, admitted, semesters, departments, programs, courses, program_lecturers,
                   program_courses, enrollments, sessions>>

\* a faulty login: the cookie is set before the credentials are looked at
LoginResult_CookieFirst(usrs, email, password) ==
    LET r == authenticate_user(usrs, email, password)
        u == UserByEmail(usrs, email)
    IN
    IF r.error # ""
    THEN [status |-> 401, detail |-> r.error,
          set_cookie |-> IF u = None THEN <<>> ELSE <<create_access_token(u)>>]
    ELSE [status |-> 200, detail |-> "", set_cookie |-> <<create_access_token(r.user_id)>>]

\* POST /api/login: authenticate_user with the email and password as sent,
\* then the token and the cookie; ValueError is answered with 401
LoginResult(usrs, email, password) ==
    LET r == authenticate_user(usrs, email, password) IN
    IF r.error # ""
    THEN [status |-> 401, detail |-> r.error, set_cookie |-> <<>>]
    ELSE [status |-> 200, detail |-> "", set_cookie |-> <<create_access_token(r.user_id)>>]

login(email, password) ==
    LET r == LoginResult(users, email, password) IN
    /\ cookie' = IF Has(r.set_cookie) THEN r.set_cookie ELSE cookie
    /\ resp' = Response("login", r.status, r.detail)
    /\ UNCHANGED <<requests, now, admitted, semesters, departments, programs, courses, users, program_lecturers,
                   program_courses, enrollments, sessions>>

\* POST /api/logout: delete_cookie and the message, whatever the request holds
LogoutResult == [status |-> 200, detail |-> "Successfully logged out",
                 delete_cookie |-> TRUE]

logout ==
    /\ cookie' = IF LogoutResult.delete_cookie THEN <<>> ELSE cookie
    /\ resp' = Response("logout", LogoutResult.status, LogoutResult.detail)
    /\ UNCHANGED <<requests, now, admitted, semesters, departments, programs, courses, users, program_lecturers,
                   program_courses, enrollments, sessions>>

\* values of the UserRole enum
UserRoles == {"admin", "lecturer", "student"}

\* POST /api/users: the request carries "name", "email", "password" and
\* "role", each validated in this order; UserRole(role.lower()); then
\* AuthManager.create_user with that role.  A ValueError (the stored email)
\* is answered with 400, every HTTPException raised inside with 500
CreateUserResult(actor, request) ==
    LET Refuse(status, detail) ==
            [status |-> status, detail |-> detail, users |-> users]
        name_error == validate_required_string_error(request.name, "name")
        email_error == validate_email_error(request.email)
        password_error == validate_required_string_error(request.password, "password")
        role_error == validate_required_string_error(request.role, "role")
        role == Lower(validate_required_string(request.role))
        r == AuthManager_create_user(users, validate_required_string(request.name),
                 validate_email(request.email),
                 validate_required_string(request.password), role)
    IN
    IF UserRole[actor] # "admin" THEN Refuse(500, "Access denied")
    ELSE IF name_error # "" THEN Refuse(500, name_error)
    ELSE IF email_error # "" THEN Refuse(500, email_error)
    ELSE IF password_error # "" THEN Refuse(500, password_error)
    ELSE IF role_error # "" THEN Refuse(500, role_error)
    ELSE IF role \notin UserRoles THEN Refuse(500, "Invalid role")
    ELSE IF r.error # "" THEN Refuse(400, r.error)
    ELSE [status |-> 200, detail |-> "User created successfully", users |-> r.users]

create_user(actor, request) ==
    LET r == CreateUserResult(actor, request) IN
    /\ Len(r.users) <= MaxUsers
    /\ users' = r.users
    /\ resp' = Response("create_user", r.status, r.detail)
    /\ UNCHANGED <<requests, now, admitted, semesters, cookie, sessions, departments, programs, courses, program_lecturers,
                   program_courses, enrollments>>

\* UserManagementService.update_user for validated data that carry a name
\* and a role: error message ("" on success) and the committed users
update_user_service(usrs, user_id, name, role) ==
    IF user_id \notin DOMAIN usrs THEN [error |-> "User not found", users |-> usrs]
    ELSE IF Lower(role) \notin UserRoles THEN
       [error |-> "Invalid role: " \o role \o " - Invalid role: " \o role,
        users |-> usrs]
    ELSE [error |-> "",
          users |-> [usrs EXCEPT ![user_id].name = name,
                                 ![user_id].role = Lower(role)]]

\* PUT /api/users/{user_id} with a request that carries "name" and "role"
\* (both validated as optional strings); every exception is answered with 500
UpdateUserResult(actor, user_id, name, role) ==
    LET r == update_user_service(users, user_id, validate_required_string(name),
                                 validate_required_string(role))
        Refuse(detail) == [status |-> 500, detail |-> detail, users |-> users]
    IN
    IF UserRole[actor] # "admin" THEN Refuse("Access denied")
    ELSE IF r.error # "" THEN Refuse(r.error)
    ELSE [status |-> 200, detail |-> "User updated successfully", users |-> r.users]

update_user(actor, user_id, name, role) ==
    LET r == UpdateUserResult(actor, user_id, name, role) IN
    /\ users' = r.users
    /\ resp' = Response("update_user", r.status, r.detail)
    /\ UNCHANGED <<requests, now, admitted, semesters, cookie, sessions, departments, programs, courses, program_lecturers,
                   program_courses, enrollments>>

\* User.email is unique in the store: the commit of an email that another
\* user holds fails
EmailTaken(usrs, user_id, email) ==
    \E u \in DOMAIN usrs : u # user_id /\ usrs[u].email = email

\* PUT /api/users/profile with a request that carries "name" and the
\* optional key "email": the caller's own row is updated through
\* UserManagementService.update_user; the email is validated when it is
\* sent and not empty; every exception, the failed commit included, is
\* answered with 500
UpdateUserProfileResult(actor, name, email) ==
    LET Refuse(detail) == [status |-> 500, detail |-> detail, users |-> users]
        sent == Has(email) /\ Val(email) # ""
    IN
    IF sent /\ validate_email_error(Val(email)) # ""
    THEN Refuse(validate_email_error(Val(email)))
    ELSE IF sent /\ EmailTaken(users, actor, validate_email(Val(email)))
    THEN Refuse("IntegrityError")
    ELSE [status |-> 200, detail |-> "",
          users |-> [users EXCEPT
              ![actor].name = validate_required_string(name),
              ![actor].email = IF sent THEN validate_email(Val(email)) ELSE @]]

update_user_profile(actor, name, email) ==
    LET r == UpdateUserProfileResult(actor, name, email) IN
    /\ users' = r.users
    /\ resp' = Response("update_user_profile", r.status, r.detail)
    /\ UNCHANGED <<requests, now, admitted, semesters, cookie, sessions, departments, programs, courses, program_lecturers,
                   program_courses, enrollments>>

\* POST /api/users/change-password: the request carries "current_password"
\* and "new_password" ("" when absent)
ChangePasswordResult(actor, current_password, new_password) ==
    LET Refuse(detail) == [status |-> 400, detail |-> detail, users |-> users]
    IN
    IF current_password = "" \/ new_password = ""
    THEN Refuse("Current password and new password are required")
    ELSE IF ~verify_password(current_password, users[actor].password_hash)
    THEN Refuse("Current password is incorrect")
    ELSE [status |-> 200, detail |-> "Password changed successfully",
          users |-> [users EXCEPT ![actor].password_hash = hash_password(new_password)]]

change_password(actor, current_password, new_password) ==
    LET r == ChangePasswordResult(actor, current_password, new_password) IN
    /\ users' = r.users
    /\ resp' = Response("change_password", r.status, r.detail)
    /\ UNCHANGED <<requests, now, admitted, semesters, cookie, sessions, departments, programs, courses, program_lecturers,
                   program_courses, enrollments>>

----------------------------------------------------------------------------
(* Creation of programs and courses (academic_service.py create_program;    *)
(* main.py create_program, create_course)                                   *)

MaxPrograms == 5
MaxCourses == 7

\* the 'else' branch of validate_request_data for the rule type 'boolean':
\* validate_optional_string, which returns None for a value that is absent
\* or false and raises HTTPException(400) for True, which is not a string
ValidateBooleanError(value, field_name) ==
    IF Has(value) /\ Val(value) THEN field_name \o " must be a string" ELSE ""

\* InputValidator.validate_integer with min_val and max_val (None: no upper
\* limit): the detail of the HTTPException(400), "" when the value is returned
ValidateIntegerError(value, field_name, min_val, max_val) ==
    IF ~Has(value) THEN field_name \o " is required"
    ELSE IF Val(value) < min_val THEN field_name \o " must be at least " \o Str(min_val)
    ELSE IF max_val # None /\ Val(value) > max_val
         THEN field_name \o " must be at most " \o Str(max_val)
    ELSE ""

\* the lowest active row carrying a code (.first()), or None
ActiveRowWithCode(rows, code) ==
    LET S == {i \in DOMAIN rows : rows[i].code = code /\ rows[i].is_active}
    IN IF S = {} THEN None ELSE Min(S)

\* AcademicService.create_program: data is the request with the optional keys
\* "code", "department_id" and "is_active" (name, description and
\* program_type are present); a missing key is a KeyError
create_program_service(progs, depts, data) ==
    IF ~Has(data.code) THEN [error |-> "'code'", programs |-> progs]
    ELSE IF ActiveRowWithCode(progs, Upper(Val(data.code))) # None THEN
       [error |-> "Program code '" \o Upper(Val(data.code))
                    \o "' already exists in active programs",
        programs |-> progs]
    ELSE IF ~Has(data.department_id) THEN
       [error |-> "'department_id'", programs |-> progs]
    ELSE IF Val(data.department_id) \notin DOMAIN depts THEN
       [error |-> "Department not found", programs |-> progs]
    ELSE
       [error |-> "",
        programs |-> Append(progs,
            [code |-> Upper(Val(data.code)),
             department_id |-> Val(data.department_id),
             is_active |-> IF Has(data.is_active) THEN Val(data.is_active)
                           ELSE TRUE])]

\* POST /api/academic/programs: the admin check, then the service with the
\* request as it was sent; every exception is answered with 500
CreateProgramResult(actor, request) ==
    LET r == create_program_service(programs, departments, request)
        Refuse(detail) == [status |-> 500, detail |-> detail, programs |-> programs]
    IN
    IF UserRole[actor] # "admin" THEN Refuse("Access denied")
    ELSE IF r.error # "" THEN Refuse(r.error)
    ELSE [status |-> 200, detail |-> "Program created successfully",
          programs |-> r.programs]

create_program(actor, request) ==
    LET r == CreateProgramResult(actor, request) IN
    /\ Len(r.programs) <= MaxPrograms
    /\ programs' = r.programs
    /\ resp' = Response("create_program", r.status, r.detail)
    /\ UNCHANGED <<requests, now, admitted, semesters, cookie, sessions,
                   departments, courses, users, program_lecturers, program_courses,
                   enrollments>>

\* POST /api/courses: admins and lecturers; the request carries the optional
\* keys "name", "code", "department_id", "max_capacity" and "lecturer_id" and
\* is validated in the order of the rules; the code must not be that of an
\* active course; the department is not looked up; the course is stored
\* active, taught by the lecturer who sent the request or by the lecturer
\* the request names; every exception is answered with 500.
\* get_current_semester finds a stored semester and writes nothing
CreateCourseResult(actor, request) ==
    LET Refuse(detail) == [status |-> 500, detail |-> detail, courses |-> courses]
        code == Upper(Strip(Val(request.code)))
        department_error ==
            ValidateIntegerError(request.department_id, "department_id", 1, None)
        capacity_error ==
            IF Has(request.max_capacity)
            THEN ValidateIntegerError(request.max_capacity, "max_capacity", 1, 500)
            ELSE ""
    IN
    IF UserRole[actor] \notin {"admin", "lecturer"} THEN Refuse("Access denied")
    ELSE IF ~Has(request.name) THEN Refuse("name is required")
    ELSE IF ValidateCodeError(request.code) # ""
         THEN Refuse(ValidateCodeError(request.code))
    ELSE IF department_error # "" THEN Refuse(department_error)
    ELSE IF capacity_error # "" THEN Refuse(capacity_error)
    ELSE IF ActiveRowWithCode(courses, code) # None
         THEN Refuse("Course code '" \o code \o "' already exists in active courses")
    ELSE [status |-> 200, detail |-> "Course created successfully",
          courses |-> Append(courses,
              [code |-> code,
               department_id |-> Val(request.department_id),
               lecturer_id |-> IF UserRole[actor] = "lecturer" THEN actor
                               ELSE IF Has(request.lecturer_id)
                                    THEN Val(request.lecturer_id) ELSE None,
               is_active |-> TRUE,
               max_capacity |-> IF Has(request.max_capacity)
                                THEN Val(request.max_capacity) ELSE 30])]

create_course(actor, request) ==
    LET r == CreateCourseResult(actor, request) IN
    /\ Len(r.courses) <= MaxCourses
    /\ courses' = r.courses
    /\ resp' = Response("create_course", r.status, r.detail)
    /\ UNCHANGED <<requests, now, admitted, semesters, cookie, sessions,
                   departments, programs, users, program_lecturers, program_courses,
                   enrollments>>

\* POST /api/courses up to db.add: the checks, the validation and the lookup
\* of an active course with the code
create_course_read(s, actor, request) ==
    LET r == CreateCourseResult(actor, request) IN
    /\ sessions[s] = Idle
    /\ IF r.status # 200
       THEN /\ resp' = Response("create_course", r.status, r.detail)
            /\ UNCHANGED sessions
       ELSE /\ sessions' = [sessions EXCEPT ![s] =
                   [op |-> "create_course", row |-> r.courses[Len(r.courses)]]]
            /\ UNCHANGED resp
    /\ UNCHANGED <<requests, now, admitted, semesters, cookie, departments, programs, courses, users, program_lecturers,
                   program_courses, enrollments>>

\* db.add(course) and db.commit() of create_course
create_course_commit(s) ==
    /\ InFlight(s, "create_course")
    /\ Len(courses) < MaxCourses
    /\ courses' = Append(courses, sessions[s].row)
    /\ resp' = Response("create_course", 200, "Course created successfully")
    /\ sessions' = [sessions EXCEPT ![s] = Idle]
    /\ UNCHANGED <<requests, now, admitted, semesters, cookie, departments, programs, users, program_lecturers,
                   program_courses, enrollments>>

----------------------------------------------------------------------------
(* The handlers of routers/academic.py, mounted beside those of main.py:    *)
(* the same service methods with the request as it was sent; a ValueError   *)
(* of the service is answered with 400, every other exception, the 403 of   *)
(* the role check and a KeyError included, with 500                         *)

\* the messages of the KeyErrors the services raise for a missing key
KeyErrors == {"'code'", "'name'", "'department_id'", "'lecturer_id'"}

\* except ValueError -> 400, except Exception -> 500
RouterStatus(error) == IF error \in KeyErrors THEN 500 ELSE 400

\* POST .../departments: the request carries the optional keys "name", "code"
\* and "is_active" (and a description); data["code"] is read first, for the
\* uniqueness check, data["name"] when the row is built
RouterCreateDepartmentResult(actor, request) ==
    LET Refuse(status, detail) ==
            [status |-> status, detail |-> detail, departments |-> departments]
        r == create_department_service(departments,
                 [code |-> Val(request.code), is_active |-> request.is_active])
    IN
    IF UserRole[actor] # "admin"
    THEN Refuse(500, "Only admins can create departments")
    ELSE IF ~Has(request.code) THEN Refuse(500, "'code'")
    ELSE IF r.error # "" THEN Refuse(400, r.error)
    ELSE IF ~Has(request.name) THEN Refuse(500, "'name'")
    ELSE [status |-> 200, detail |-> "Department created successfully",
          departments |-> r.departments]

router_create_department(actor, request) ==
    LET r == RouterCreateDepartmentResult(actor, request) IN
    /\ Len(r.departments) <= MaxDepartments
    /\ departments' = r.departments
    /\ resp' = Response("router_create_department", r.status, r.detail)
    /\ UNCHANGED <<requests, now, admitted, semesters, cookie, sessions, programs, courses, users, program_lecturers, program_courses, enrollments>>

\* PUT .../departments/{department_id}
RouterUpdateDepartmentResult(actor, department_id, data) ==
    LET r == update_department_service(departments, department_id, data)
        Refuse(status, detail) ==
            [status |-> status, detail |-> detail, departments |-> departments]
    IN
    IF UserRole[actor] # "admin"
    THEN Refuse(500, "Only admins can update departments")
    ELSE IF r.error # "" THEN Refuse(400, r.error)
    ELSE [status |-> 200, detail |-> "Department updated successfully",
          departments |-> r.departments]

router_update_department(actor, department_id, data) ==
    LET r == RouterUpdateDepartmentResult(actor, department_id, data) IN
    /\ departments' = r.departments
    /\ resp' = Response("router_update_department", r.status, r.detail)
    /\ UNCHANGED <<requests, now, admitted, semesters, cookie, sessions, programs, courses, users, program_lecturers, program_courses, enrollments>>

\* DELETE .../departments/{department_id}
RouterDeleteDepartmentResult(actor, department_id, force) ==
    LET r == delete_department_service(departments, programs, courses, users,
                                       department_id, force)
        Refuse(status, detail) ==
            [status |-> status, detail |-> detail, departments |-> departments,
             programs |-> programs, courses |-> courses, users |-> users]
    IN
    IF UserRole[actor] # "admin"
    THEN Refuse(500, "Only admins can delete departments")
    ELSE IF r.error # "" THEN Refuse(400, r.error)
    ELSE [status |-> 200, detail |-> "Department deleted successfully",
          departments |-> r.departments, programs |-> r.programs,
          courses |-> r.courses, users |-> r.users]

router_delete_department(actor, department_id, force) ==
    LET r == RouterDeleteDepartmentResult(actor, department_id, force) IN
    /\ departments' = r.departments
    /\ programs' = r.programs
    /\ courses' = r.courses
    /\ users' = r.users
    /\ resp' = Response("router_delete_department", r.status, r.detail)
    /\ UNCHANGED <<requests, now, admitted, semesters, cookie, sessions, program_lecturers, program_courses, enrollments>>

\* POST .../departments/{department_id}/assign-lecturer: lecturer_id is the
\* optional key of the request, request["lecturer_id"] a KeyError without it
RouterAssignLecturerToDepartmentResult(actor, department_id, lecturer_id) ==
    LET r == assign_lecturer_to_department_service(departments, users,
                 Val(lecturer_id), department_id)
        Refuse(status, detail) ==
            [status |-> status, detail |-> detail, users |-> users]
    IN
    IF UserRole[actor] # "admin"
    THEN Refuse(500, "Only admins can assign lecturers")
    ELSE IF ~Has(lecturer_id) THEN Refuse(500, "'lecturer_id'")
    ELSE IF r.error # "" THEN Refuse(400, r.error)
    ELSE [status |-> 200, detail |-> "Lecturer assigned successfully",
          users |-> r.users]

router_assign_lecturer_to_department(actor, department_id, lecturer_id) ==
    LET r == RouterAssignLecturerToDepartmentResult(actor, department_id, lecturer_id) IN
    /\ users' = r.users
    /\ resp' = Response("router_assign_lecturer_to_department", r.status, r.detail)
    /\ UNCHANGED <<requests, now, admitted, semesters, cookie, sessions, departments, programs, courses, program_lecturers, program_courses, enrollments>>

\* POST .../programs
RouterCreateProgramResult(actor, request) ==
    LET r == create_program_service(programs, departments, request)
        Refuse(status, detail) ==
            [status |-> status, detail |-> detail, programs |-> programs]
    IN
    IF UserRole[actor] # "admin"
    THEN Refuse(500, "Only admins can create programs")
    ELSE IF r.error # "" THEN Refuse(RouterStatus(r.error), r.error)
    ELSE [status |-> 200, detail |-> "Program created successfully",
          programs |-> r.programs]

router_create_program(actor, request) ==
    LET r == RouterCreateProgramResult(actor, request) IN
    /\ Len(r.programs) <= MaxPrograms
    /\ programs' = r.programs
    /\ resp' = Response("router_create_program", r.status, r.detail)
    /\ UNCHANGED <<requests, now, admitted, semesters, cookie, sessions, departments, courses, users, program_lecturers, program_courses, enrollments>>

\* PUT .../programs/{program_id}
RouterUpdateProgramResult(actor, program_id, data) ==
    LET r == update_program_service(programs, program_lecturers, program_id, data)
        Refuse(status, detail) ==
            [status |-> status, detail |-> detail, programs |-> programs,
             program_lecturers |-> program_lecturers]
    IN
    IF UserRole[actor] # "admin"
    THEN Refuse(500, "Only admins can update programs")
    ELSE IF r.error # "" THEN Refuse(400, r.error)
    ELSE [status |-> 200, detail |-> "Program updated successfully",
          programs |-> r.programs, program_lecturers |-> r.program_lecturers]

router_update_program(actor, program_id, data) ==
    LET r == RouterUpdateProgramResult(actor, program_id, data) IN
    /\ Len(r.program_lecturers) <= MaxProgramLecturers
    /\ programs' = r.programs
    /\ program_lecturers' = r.program_lecturers
    /\ resp' = Response("router_update_program", r.status, r.detail)
    /\ UNCHANGED <<requests, now, admitted, semesters, cookie, sessions, departments, users, courses, program_courses, enrollments>>

\* DELETE .../programs/{program_id}
RouterDeleteProgramResult(actor, program_id, force) ==
    LET r == delete_program_service(programs, enrollments, program_id, force)
        Refuse(status, detail) ==
            [status |-> status, detail |-> detail, programs |-> programs,
             enrollments |-> enrollments]
    IN
    IF UserRole[actor] # "admin"
    THEN Refuse(500, "Only admins can delete programs")
    ELSE IF r.error # "" THEN Refuse(400, r.error)
    ELSE [status |-> 200, detail |-> "Program deleted successfully",
          programs |-> r.programs, enrollments |-> r.enrollments]

router_delete_program(actor, program_id, force) ==
    LET r == RouterDeleteProgramResult(actor, program_id, force) IN
    /\ programs' = r.programs
    /\ enrollments' = r.enrollments
    /\ resp' = Response("router_delete_program", r.status, r.detail)
    /\ UNCHANGED <<requests, now, admitted, semesters, cookie, sessions, departments, users, courses, program_lecturers, program_courses>>

----------------------------------------------------------------------------
(* fix_program_assignments.py: the script assigns Dr. Sarah Johnson to the  *)
(* BSCS program of the CS department and allocates the active courses of    *)
(* that department to the program; create_sample_courses of the same file   *)
(* adds the sample courses the CS department lacks.  The script is a        *)
(* process of its own with a session of its own and holds no lock: it is    *)
(* taken statement by statement, and the server may commit between two of   *)
(* its statements                                                           *)

\* .filter(Department.code == "CS").first(): id or None
CsDepartment(depts) ==
    LET S == {i \in DOMAIN depts : depts[i].code = "CS"}
    IN IF S = {} THEN None ELSE Min(S)

\* .filter(Program.department_id == cs_department.id, Program.code == "BSCS").first()
CsProgram(progs, department_id) ==
    LET S == {i \in DOMAIN progs : /\ progs[i].department_id = department_id
                                   /\ progs[i].code = "BSCS"}
    IN IF S = {} THEN None ELSE Min(S)

\* .filter(User.email == "sarah.johnson@lms.edu", User.role == LECTURER).first()
SarahJohnson(usrs) ==
    LET S == {u \in DOMAIN usrs : /\ usrs[u].email = "sarah.johnson@lms.edu"
                                  /\ usrs[u].role = "lecturer"}
    IN IF S = {} THEN None ELSE Min(S)

\* the script returns False (or its last message): the run is over
ScriptReturns(s, op, message) ==
    /\ resp' = Response(op, None, message)
    /\ sessions' = [sessions EXCEPT ![s] = Idle]

\* the tables the script leaves alone at a SELECT
ScriptReads ==
    UNCHANGED <<requests, now, admitted, semesters, cookie, departments, programs,
                courses, users, program_lecturers, program_courses, enrollments>>

\* step 1 of fix_program_assignments: the CS department is looked up
fix_program_assignments(s) ==
    LET d == CsDepartment(departments) IN
    /\ sessions[s] = Idle
    /\ IF d = None
       THEN ScriptReturns(s, "fix_program_assignments",
                          "Computer Science department not found")
       ELSE /\ sessions' = [sessions EXCEPT ![s] =
                   [op |-> "fix_program_assignments", pc |-> "program",
                    department_id |-> d, program_id |-> None,
                    lecturer_id |-> None, existing |-> None,
                    cs_courses |-> <<>>, k |-> 1, writes |-> <<>>]]
            /\ UNCHANGED resp
    /\ ScriptReads

\* the BSCS program of the department is looked up
fix_select_program(s) ==
    LET p == CsProgram(programs, sessions[s].department_id) IN
    /\ At(s, "fix_program_assignments", "program")
    /\ IF p = None
       THEN ScriptReturns(s, "fix_program_assignments",
                          "Computer Science program not found")
       ELSE /\ sessions' = [sessions EXCEPT ![s].pc = "lecturer",
                                            ![s].program_id = p]
            /\ UNCHANGED resp
    /\ ScriptReads

\* step 2: Dr. Sarah Johnson is looked up
fix_select_lecturer(s) ==
    LET l == SarahJohnson(users) IN
    /\ At(s, "fix_program_assignments", "lecturer")
    /\ IF l = None
       THEN ScriptReturns(s, "fix_program_assignments", "Dr. Sarah Johnson not found")
       ELSE /\ sessions' = [sessions EXCEPT ![s].pc = "assignment",
                                            ![s].lecturer_id = l]
            /\ UNCHANGED resp
    /\ ScriptReads

\* step 3: the assignment of the lecturer to the program is looked up; an
\* active one is left and the script goes on to the courses
fix_select_assignment(s) ==
    LET existing == ExistingAssignment(program_lecturers, sessions[s].program_id,
                                       sessions[s].lecturer_id)
    IN
    /\ At(s, "fix_program_assignments", "assignment")
    /\ sessions' = [sessions EXCEPT
          ![s].pc = IF existing # None /\ program_lecturers[existing].is_active
                    THEN "courses" ELSE "assign",
          ![s].existing = existing]
    /\ UNCHANGED resp
    /\ ScriptReads

\* the write of step 3: the inactive assignment found is set active and
\* keeps its role and assigned_by, or a new assignment is created
FixAssignment(pl, session) ==
    IF session.existing # None
    THEN [pl EXCEPT ![session.existing].is_active = TRUE]
    ELSE Append(pl, [program_id |-> session.program_id,
                     lecturer_id |-> session.lecturer_id,
                     role |-> "lecturer", is_active |-> TRUE, assigned_by_id |-> 1])

\* db.commit() of step 3
fix_commit_assignment(s) ==
    /\ At(s, "fix_program_assignments", "assign")
    /\ program_lecturers' = FixAssignment(program_lecturers, sessions[s])
    /\ sessions' = [sessions EXCEPT ![s].pc = "courses"]
    /\ UNCHANGED <<requests, now, admitted, semesters, cookie, departments, programs, courses, users, program_courses, enrollments, resp>>

\* step 4: the active courses of the department, in the order of their ids
CsCourses(crs, department_id) ==
    Ascending({c \in DOMAIN crs : /\ crs[c].department_id = department_id
                                  /\ crs[c].is_active})

fix_select_courses(s) ==
    /\ At(s, "fix_program_assignments", "courses")
    /\ sessions' = [sessions EXCEPT
          ![s].pc = "allocation",
          ![s].cs_courses = CsCourses(courses, sessions[s].department_id),
          ![s].k = 1, ![s].writes = <<>>]
    /\ UNCHANGED resp
    /\ ScriptReads

\* step 5 for the k-th course of the list: its allocation is looked up; an
\* active one is left, an inactive one is set active on the session, a
\* missing one is added to the session as a required course whose
\* semester_order is the position of the course in the list
fix_select_allocation(s) ==
    LET k == sessions[s].k
        course_id == sessions[s].cs_courses[k]
        existing == ExistingAllocation(program_courses, sessions[s].program_id,
                                       course_id)
        write == [existing |-> existing, course_id |-> course_id,
                  semester_order |-> k]
    IN
    /\ At(s, "fix_program_assignments", "allocation")
    /\ k <= Len(sessions[s].cs_courses)
    /\ sessions' = [sessions EXCEPT
          ![s].k = k + 1,
          ![s].writes = IF existing # None /\ program_courses[existing].is_active
                        THEN @ ELSE Append(@, write)]
    /\ UNCHANGED resp
    /\ ScriptReads

\* the writes of step 5 from the k-th on, as the commit sends them
RECURSIVE FixAllocations(_, _, _, _)
FixAllocations(pc, program_id, writes, k) ==
    IF k > Len(writes) THEN pc
    ELSE LET next == IF writes[k].existing # None
                     THEN [pc EXCEPT ![writes[k].existing].is_active = TRUE]
                     ELSE Append(pc, [program_id |-> program_id,
                                      course_id |-> writes[k].course_id,
                                      is_required |-> TRUE,
                                      semester_order |-> writes[k].semester_order,
                                      is_active |-> TRUE, allocated_by_id |-> 1])
         IN FixAllocations(next, program_id, writes, k + 1)

\* db.commit() after the loop of step 5, and the end of the script
fix_program_assignments_courses(s) ==
    /\ At(s, "fix_program_assignments", "allocation")
    /\ sessions[s].k > Len(sessions[s].cs_courses)
    /\ program_courses' = FixAllocations(program_courses, sessions[s].program_id,
                                         sessions[s].writes, 1)
    /\ ScriptReturns(s, "fix_program_assignments",
                     "Successfully allocated courses to CS program")
    /\ UNCHANGED <<requests, now, admitted, semesters, cookie, departments, programs, courses, users, program_lecturers, enrollments>>

\* the codes of the sample courses, in the order of the list
SampleCourseCodes == <<"CS101", "CS201", "CS301", "CS401">>

\* create_sample_courses: the CS department is looked up
create_sample_courses(s) ==
    LET d == CsDepartment(departments) IN
    /\ sessions[s] = Idle
    /\ IF d = None
       THEN ScriptReturns(s, "create_sample_courses", "CS department not found")
       ELSE /\ sessions' = [sessions EXCEPT ![s] =
                   [op |-> "create_sample_courses", pc |-> "semester",
                    department_id |-> d, lecturer_id |-> None, k |-> 1,
                    inserts |-> <<>>]]
            /\ UNCHANGED resp
    /\ ScriptReads

\* .filter(Semester.is_current == True).first()
sample_select_semester(s) ==
    /\ At(s, "create_sample_courses", "semester")
    /\ IF \E i \in DOMAIN semesters : semesters[i].is_current
       THEN /\ sessions' = [sessions EXCEPT ![s].pc = "lecturer"]
            /\ UNCHANGED resp
       ELSE ScriptReturns(s, "create_sample_courses", "Current semester not found")
    /\ ScriptReads

\* .filter(User.email == "sarah.johnson@lms.edu").first(), whatever the role;
\* the courses are created without a lecturer when there is no such user
sample_select_lecturer(s) ==
    /\ At(s, "create_sample_courses", "lecturer")
    /\ sessions' = [sessions EXCEPT
          ![s].pc = "course",
          ![s].lecturer_id = UserByEmail(users, "sarah.johnson@lms.edu")]
    /\ UNCHANGED resp
    /\ ScriptReads

\* the k-th sample course: a course of the department with its code, active
\* or not, is looked up; when there is none the course is added to the session
sample_select_course(s) ==
    LET k == sessions[s].k
        existing == \E c \in DOMAIN courses :
                       /\ courses[c].code = SampleCourseCodes[k]
                       /\ courses[c].department_id = sessions[s].department_id
        course == [code |-> SampleCourseCodes[k],
                   department_id |-> sessions[s].department_id,
                   lecturer_id |-> sessions[s].lecturer_id,
                   is_active |-> TRUE, max_capacity |-> 30]
    IN
    /\ At(s, "create_sample_courses", "course")
    /\ k <= Len(SampleCourseCodes)
    /\ sessions' = [sessions EXCEPT
          ![s].k = k + 1,
          ![s].inserts = IF existing THEN @ ELSE Append(@, course)]
    /\ UNCHANGED resp
    /\ ScriptReads

\* db.commit() after the loop: the courses added to the session are inserted
sample_commit(s) ==
    /\ At(s, "create_sample_courses", "course")
    /\ sessions[s].k > Len(SampleCourseCodes)
    /\ courses' = courses \o sessions[s].inserts
    /\ ScriptReturns(s, "create_sample_courses", "Created new courses")
    /\ UNCHANGED <<requests, now, admitted, semesters, cookie, departments, programs, users, program_lecturers, program_courses, enrollments>>

----------------------------------------------------------------------------
(* Semesters (main.py create_semester, update_semester, get_semesters;      *)
(* academic_service.py get_current_semester): the start_date and is_current *)
(* columns; a start_date is the position of the date in time                *)

MaxSemesters == 3

\* AcademicService.get_current_semester on a table that holds a row (the
\* seeded table does and no operation deletes a semester): the first row
\* flagged current, else the row that starts last; nothing is written
get_current_semester(sems) ==
    LET current == {i \in DOMAIN sems : sems[i].is_current}
        latest == {i \in DOMAIN sems :
                      \A j \in DOMAIN sems : sems[j].start_date <= sems[i].start_date}
    IN IF current # {} THEN Min(current) ELSE Min(latest)

\* POST /api/academic/semesters: the request carries the optional keys
\* "name", "year", "start_date" and "is_current" (semester_type and the other
\* dates are well formed); the validated "is_current" is None, stored as a
\* flag that is not set; every exception is answered with 500
CreateSemesterResult(actor, request) ==
    LET Refuse(detail) == [status |-> 500, detail |-> detail, semesters |-> semesters]
        year_error == ValidateIntegerError(request.year, "year", 2020, 2030)
        current_error == ValidateBooleanError(request.is_current, "is_current")
    IN
    IF UserRole[actor] # "admin" THEN Refuse("Access denied")
    ELSE IF ~Has(request.name) THEN Refuse("name is required")
    ELSE IF year_error # "" THEN Refuse(year_error)
    ELSE IF ~Has(request.start_date) THEN Refuse("start_date is required")
    ELSE IF current_error # "" THEN Refuse(current_error)
    ELSE [status |-> 200, detail |-> "Semester created successfully",
          semesters |-> Append(semesters,
              [start_date |-> Val(request.start_date), is_current |-> FALSE])]

create_semester(actor, request) ==
    LET r == CreateSemesterResult(actor, request) IN
    /\ Len(r.semesters) <= MaxSemesters
    /\ semesters' = r.semesters
    /\ resp' = Response("create_semester", r.status, r.detail)
    /\ UNCHANGED <<requests, now, admitted, cookie, sessions, departments,
                   programs, courses, users, program_lecturers, program_courses,
                   enrollments>>

\* semester.is_current = request["is_current"]: the row of the request only
UpdateSemesterRows(sems, semester_id, is_current) ==
    [sems EXCEPT ![semester_id].is_current = is_current]

\* PUT /api/academic/semesters/{semester_id}: the value of "is_current" is
\* assigned as it was sent; every exception, the 403 and the 404 included,
\* is answered with 500
UpdateSemesterResult(actor, semester_id, is_current) ==
    LET Refuse(detail) == [status |-> 500, detail |-> detail, semesters |-> semesters]
    IN
    IF UserRole[actor] # "admin" THEN Refuse("Access denied")
    ELSE IF semester_id \notin DOMAIN semesters THEN Refuse("Semester not found")
    ELSE [status |-> 200, detail |-> "Semester updated successfully",
          semesters |-> IF Has(is_current)
                        THEN UpdateSemesterRows(semesters, semester_id, Val(is_current))
                        ELSE semesters]

update_semester(actor, semester_id, is_current) ==
    LET r == UpdateSemesterResult(actor, semester_id, is_current) IN
    /\ semesters' = r.semesters
    /\ resp' = Response("update_semester", r.status, r.detail)
    /\ UNCHANGED <<requests, now, admitted, cookie, sessions, departments,
                   programs, courses, users, program_lecturers, program_courses,
                   enrollments>>

\* GET /api/academic/semesters: the list and get_current_semester; the detail
\* of the response names the current semester
get_semesters ==
    /\ resp' = Response("get_semesters", 200, Str(get_current_semester(semesters)))
    /\ UNCHANGED <<requests, now, admitted, cookie, sessions, departments,
                   programs, courses, users, program_lecturers, program_courses,
                   enrollments, semesters>>

----------------------------------------------------------------------------
(* RateLimitMiddleware (middleware/rate_limit.py): requests is self.requests, *)
(* now is time.time() in seconds, admitted keeps for each client the times of *)
(* the requests that were passed on to call_next                              *)

\* requests_per_minute of the middleware (60 when not given)
RequestsPerMinute == 2
MaxTime == 91
Window == 60
ClientIps == {"10.0.0.1", "10.0.0.2"}
TimeSteps == {29, 30, 31}

\* a faulty cleaning: a request made exactly one minute ago is kept
Clean_Inclusive(times, current_time) ==
    Filter(times, {t \in {times[i] : i \in DOMAIN times} : current_time - t <= Window})

\* the list comprehension: the requests made less than one minute ago
Clean(times, current_time) ==
    Filter(times, {t \in {times[i] : i \in DOMAIN times} : current_time - t < Window})

\* RateLimitMiddleware.dispatch up to call_next: the cleaned list is stored,
\* then HTTPException(429) is raised or the request is recorded and passed on
\* (status 200 stands for the response of call_next)
DispatchResult(reqs, client_ip, current_time) ==
    LET kept == Clean(reqs[client_ip], current_time) IN
    IF Len(kept) >= RequestsPerMinute
    THEN [status |-> 429, detail |-> "Rate limit exceeded. Please try again later.",
          requests |-> [reqs EXCEPT ![client_ip] = kept]]
    ELSE [status |-> 200, detail |-> "",
          requests |-> [reqs EXCEPT ![client_ip] = Append(kept, current_time)]]

dispatch(client_ip) ==
    LET r == DispatchResult(requests, client_ip, now) IN
    /\ requests' = r.requests
    /\ admitted' = IF r.status = 200
                   THEN [admitted EXCEPT ![client_ip] = Append(@, now)]
                   ELSE admitted
    /\ resp' = Response("dispatch", r.status, r.detail)
    /\ UNCHANGED <<now, semesters, cookie, sessions, departments, programs,
                   courses, users, program_lecturers, program_courses, enrollments>>

\* time passes between two requests
tick(d) ==
    /\ now + d <= MaxTime
    /\ now' = now + d
    /\ UNCHANGED <<requests, admitted, resp, semesters, cookie, sessions,
                   departments, programs, courses, users, program_lecturers,
                   program_courses, enrollments>>

----------------------------------------------------------------------------
(* Initial state: the store after create_fresh_seed_data (main.py seeds an  *)
(* empty database at startup): three departments, four programs, four       *)
(* courses, seven users, six enrollments, two semesters; no lecturer        *)
(* assignment and no course allocation                                      *)

SeedDepartments ==
    << [code |-> "CS", is_active |-> TRUE],
       [code |-> "MATH", is_active |-> TRUE],
       [code |-> "BUS", is_active |-> TRUE] >>

SeedPrograms ==
    << [code |-> "BSCS", department_id |-> 1, is_active |-> TRUE],
       [code |-> "MSCS", department_id |-> 1, is_active |-> TRUE],
       [code |-> "BSMATH", department_id |-> 2, is_active |-> TRUE],
       [code |-> "MBA", department_id |-> 3, is_active |-> TRUE] >>

SeedCourses ==
    << [code |-> "CS101", department_id |-> 1, lecturer_id |-> 2,
        is_active |-> TRUE, max_capacity |-> 30],
       [code |-> "CS201", department_id |-> 1, lecturer_id |-> 2,
        is_active |-> TRUE, max_capacity |-> 25],
       [code |-> "MATH101", department_id |-> 2, lecturer_id |-> 3,
        is_active |-> TRUE, max_capacity |-> 35],
       [code |-> "BUS101", department_id |-> 3, lecturer_id |-> 4,
        is_active |-> TRUE, max_capacity |-> 40] >>

\* (student, course, program) of the seeded enrollments, all ENROLLED
SeedEnrollmentData ==
    << <<5, 1, 1>>, <<5, 3, 1>>, <<6, 1, 1>>, <<6, 2, 1>>, <<7, 4, 4>>, <<7, 3, 4>> >>

SeedEnrollments ==
    [i \in DOMAIN SeedEnrollmentData |->
        [student_id |-> SeedEnrollmentData[i][1],
         course_id |-> SeedEnrollmentData[i][2],
         program_id |-> SeedEnrollmentData[i][3],
         status |-> "enrolled", is_active |-> TRUE]]

\* the seed names the department of a head lecturer before the department
\* row has an id: department_id is stored as None
SeedUsers ==
    [u \in DOMAIN SeedName |->
        [name |-> SeedName[u], email |-> SeedEmail[u],
         password_hash |-> hash_password(SeedPassword[u]),
         role |-> SeedRole[u], department_id |-> None]]

Init ==
    /\ departments = SeedDepartments
    /\ programs = SeedPrograms
    /\ courses = SeedCourses
    /\ users = SeedUsers
    /\ program_lecturers = <<>>
    /\ program_courses = <<>>
    /\ enrollments = SeedEnrollments
    /\ resp = Response("none", 0, "")
    /\ sessions = [s \in Processes |-> Idle]
    /\ cookie = <<>>
    /\ semesters = << [start_date |-> 1, is_current |-> TRUE],
                       [start_date |-> 2, is_current |-> FALSE] >>
    /\ requests = [ip \in ClientIps |-> <<>>]
    /\ now = 0
    /\ admitted = [ip \in ClientIps |-> <<>>]

----------------------------------------------------------------------------
(* Lecturer allocation: assign, update, remove, and program update with a   *)
(* 'lecturers' list, one call after the other                               *)

MaxLecturerList == 2

\* Actors of the requests.  The seeded administrator is user 1; a second one
\* exists once POST /api/users has created it.  A handler uses the actor for
\* the role check and, in assign/allocate, as assigned_by/allocated_by.
\* User 3 is a lecturer, who is refused where an administrator is required.
Admin == 1
Admins == {u \in UserIds : UserRole[u] = "admin"}
NonAdmin == 3

\* POST /api/users for a second administrator
AdminRequest ==
    [name |-> "Registrar", email |-> "registrar@lms.edu",
     password |-> "admin123", role |-> "admin"]

\* ids a request may name: programs 1 and 4 are stored, 9 is not; user 3 is
\* a lecturer of the seed, user 5 a student
ProgramIdInputs == {1, 4, 9}
LecturerIdInputs == {None, 3, 5}
AssignmentIdInputs == 1..MaxProgramLecturers

LecturerLists ==
    UNION {[1..n -> LecturerIdInputs] : n \in 0..MaxLecturerList}

LecturersOnly(list) ==
    [code |-> <<>>, department_id |-> <<>>, is_active |-> <<>>,
     lecturers |-> <<list>>]

NextLecturer ==
    \/ \E actor \in Admins, p \in ProgramIdInputs, l \in LecturerIdInputs,
          r \in RoleLabels :
          assign_lecturer_to_program(actor, p, l, r)
    \/ \E p \in ProgramIdInputs, a \in AssignmentIdInputs,
          r \in Optional(RoleLabels), act \in Optional(BOOLEAN) :
          update_lecturer_assignment(Admin, p, a, r, act)
    \/ \E p \in ProgramIdInputs, a \in AssignmentIdInputs :
          remove_lecturer_from_program(Admin, p, a)
    \/ \E p \in ProgramIdInputs, list \in LecturerLists :
          update_program(Admin, p, LecturersOnly(list))
    \/ \E list \in {<<3>>, <<3, 3>>} :
          router_update_program(Admin, 1, LecturersOnly(list))
    \/ \E role \in {"student", "lecturer"} :
          update_user(Admin, 3, "Prof. Michael Chen", role)
    \/ assign_lecturer_to_program(NonAdmin, 1, 3, "lecturer")
    \/ update_lecturer_assignment(NonAdmin, 1, 1, <<>>, <<FALSE>>)
    \/ remove_lecturer_from_program(NonAdmin, 1, 1)
    \/ update_program(NonAdmin, 1, LecturersOnly(<<3>>))
    \/ router_update_program(NonAdmin, 1, LecturersOnly(<<3>>))

SpecLecturer == Init /\ [][NextLecturer]_vars

----------------------------------------------------------------------------
(* Course allocation: allocate, update and remove, one call after the other *)

\* courses 1 and 2 are stored, 9 is not
CourseIdInputs == {None, 1, 2, 9}
AllocationIdInputs == 1..MaxProgramCourses
\* request bodies: a required course of the first semester (the defaults of
\* the handler) or an elective of the second
AllocationRequests == {[is_required |-> TRUE, semester_order |-> 1],
                       [is_required |-> FALSE, semester_order |-> 2]}

NextCourseAllocation ==
    \/ \E p \in {1, 9}, c \in CourseIdInputs, req \in AllocationRequests :
          allocate_course_to_program(Admin, p, c, req.is_required, req.semester_order)
    \/ allocate_course_to_program(Admin, 4, 1, TRUE, 1)
    \/ \E actor \in Admins \ {Admin} :
          \* the second administrator allocates course 1 to program 1 as an
          \* elective of the second semester
          allocate_course_to_program(actor, 1, 1, FALSE, 2)
    \/ \E p \in {1, 9}, a \in AllocationIdInputs,
          req \in Optional(AllocationRequests), act \in Optional(BOOLEAN) :
          \* the handler sets each field on its own: a body changes the
          \* curriculum fields, or is_active, or nothing
          /\ ~(Has(req) /\ Has(act))
          /\ update_course_allocation(Admin, p, a,
              IF Has(req) THEN <<Val(req).is_required>> ELSE <<>>,
              IF Has(req) THEN <<Val(req).semester_order>> ELSE <<>>,
              act)
    \/ \E p \in ProgramIdInputs, a \in AllocationIdInputs :
          remove_course_allocation(Admin, p, a)
    \/ create_user(Admin, AdminRequest)
    \/ allocate_course_to_program(NonAdmin, 1, 1, TRUE, 1)
    \/ update_course_allocation(NonAdmin, 1, 1, <<>>, <<>>, <<FALSE>>)
    \/ remove_course_allocation(NonAdmin, 1, 1)

SpecCourseAllocation == Init /\ [][NextCourseAllocation]_vars

----------------------------------------------------------------------------
(* Enrollment: enroll, update, and deletion of programs and courses; the    *)
(* administrator lowers the capacity of course 2, which holds one student   *)

\* students 5 and 7 of the seed: 5 follows program 1, 7 program 4; neither
\* has a row in course 2, student 5 has one in course 1
Students == {5, 7}
NonStudent == 3

\* "status" values of update requests
StatusInputs == {"ENROLLED", "Dropped", "completed", "archived"}

\* the first seeded enrollment, the first row a student adds, and an id not
\* stored
EnrollmentIdInputs == {1, 7, 99}

\* deletions are requested for program 1 and course 1, and for ids not stored
DeleteIdInputs == {1, 9}

\* a student enrolls within the program the student follows, or names none
ProgramOf(student) == IF student = 7 THEN 4 ELSE 1

CapacityField(max_capacity) ==
    [code |-> <<>>, department_id |-> <<>>, lecturer_id |-> <<>>, max_capacity |-> <<max_capacity>>, is_active |-> <<>>]

NextEnrollment ==
    \/ \E actor \in Students, c \in CourseIdInputs :
          \E p \in {None, ProgramOf(actor)} : enroll_in_course(actor, c, p)
    \/ \E e \in EnrollmentIdInputs, st \in Optional(StatusInputs) :
          update_enrollment(Admin, e, st)
    \/ \E p \in DeleteIdInputs, force \in BOOLEAN :
          delete_program(Admin, p, force)
    \/ \E p \in DeleteIdInputs, force \in BOOLEAN :
          router_delete_program(Admin, p, force)
    \/ \E c \in DeleteIdInputs, force \in BOOLEAN :
          delete_course(Admin, c, force)
    \/ \E m \in {1, 2} : update_course(Admin, 2, CapacityField(m))
    \/ enroll_in_course(NonStudent, 1, 1)
    \/ update_enrollment(NonAdmin, 1, <<"Dropped">>)
    \/ delete_program(NonAdmin, 1, TRUE)
    \/ router_delete_program(NonAdmin, 1, TRUE)
    \/ delete_course(NonAdmin, 1, TRUE)

SpecEnrollment == Init /\ [][NextEnrollment]_vars

----------------------------------------------------------------------------
(* Department: create, update, delete, through main.py and through the      *)
(* router                                                                   *)

\* "code" values of requests: lower case, padded, upper case, too short
CodeInputs == {"cs", " CS ", "EE", "c"}
DepartmentNames == {"Computing"}

\* departments 1 and 3 of the seed and the first department that is created
DepartmentIdInputs == {1, 3, 4}

CreateDepartmentRequests ==
    [name : Optional(DepartmentNames), code : Optional(CodeInputs)]

RouterCreateDepartmentRequests ==
    [name : Optional(DepartmentNames), code : Optional({"cs", " CS "}),
     is_active : Optional({FALSE})]

UpdateDepartmentRequests ==
    [code : Optional({"cs", "EE"}), is_active : Optional(BOOLEAN)]

NextDepartment ==
    \/ \E req \in CreateDepartmentRequests : create_department(Admin, req)
    \/ \E req \in RouterCreateDepartmentRequests : router_create_department(Admin, req)
    \/ \E d \in DepartmentIdInputs, data \in UpdateDepartmentRequests :
          update_department(Admin, d, data)
    \/ \E data \in UpdateDepartmentRequests : router_update_department(Admin, 1, data)
    \/ \E d \in DepartmentIdInputs, force \in BOOLEAN :
          delete_department(Admin, d, force)
    \/ \E force \in BOOLEAN : router_delete_department(Admin, 1, force)
    \/ \E d \in DepartmentIdInputs : check_department_deletion(Admin, d)
    \/ create_department(NonAdmin, [name |-> <<"Computing">>, code |-> <<"EE">>])
    \/ update_department(NonAdmin, 1, [code |-> <<>>, is_active |-> <<FALSE>>])
    \/ delete_department(NonAdmin, 1, TRUE)
    \/ router_create_department(NonAdmin, [name |-> <<"Computing">>,
                                           code |-> <<"cs">>, is_active |-> <<>>])
    \/ router_update_department(NonAdmin, 1, [code |-> <<>>, is_active |-> <<FALSE>>])
    \/ router_delete_department(NonAdmin, 1, TRUE)

SpecDepartment == Init /\ [][NextDepartment]_vars

----------------------------------------------------------------------------
(* Department deletion and its cascade: a program, a course and a lecturer   *)
(* of the first two departments move between them and are deactivated; the  *)
(* third department is left alone                                           *)

\* departments 1 and 2 are deleted, 9 is not stored
CascadeDepartmentIds == {1, 2, 9}

\* the programs that move: program 1 of department 1 and program 3 of
\* department 2; of the courses, course 1 of department 1 moves
CascadeRowIds == {1, 3}

\* update_program / update_course requests that move or (de)activate a row
MoveProgramRequests ==
    {[code |-> <<>>, department_id |-> d, is_active |-> a, lecturers |-> <<>>] :
        d \in Optional(1..2), a \in Optional(BOOLEAN)}

MoveCourseRequests ==
    {[code |-> <<>>, department_id |-> d, lecturer_id |-> <<>>,
      max_capacity |-> <<>>, is_active |-> a] :
        d \in Optional(1..2), a \in Optional(BOOLEAN)}

NextCascade ==
    \/ \E d \in CascadeDepartmentIds, force \in BOOLEAN :
          delete_department(Admin, d, force)
    \/ \E d \in CascadeDepartmentIds, force \in BOOLEAN :
          router_delete_department(Admin, d, force)
    \/ \E d \in CascadeDepartmentIds : check_department_deletion(Admin, d)
    \/ \E d \in CascadeDepartmentIds :
          update_department(Admin, d, [code |-> <<>>, is_active |-> <<TRUE>>])
    \/ \E p \in CascadeRowIds, req \in MoveProgramRequests :
          update_program(Admin, p, req)
    \/ \E req \in MoveCourseRequests : update_course(Admin, 1, req)
    \/ \E d \in CascadeDepartmentIds, l \in LecturerIdInputs :
          assign_lecturer_to_department(Admin, d, l)
    \/ \E d \in CascadeDepartmentIds, l \in Optional(LecturerIdInputs) :
          router_assign_lecturer_to_department(Admin, d, l)
    \/ delete_department(NonAdmin, 1, TRUE)
    \/ router_delete_department(NonAdmin, 1, TRUE)
    \/ check_department_deletion(NonAdmin, 1)
    \/ assign_lecturer_to_department(NonAdmin, 2, 3)
    \/ router_assign_lecturer_to_department(NonAdmin, 2, <<3>>)
    \/ update_course(5, 1, [code |-> <<>>, department_id |-> <<2>>,
                            lecturer_id |-> <<>>, max_capacity |-> <<>>,
                            is_active |-> <<>>])

SpecCascade == Init /\ [][NextCascade]_vars

----------------------------------------------------------------------------
(* Forced deletions write by write, with failures; between two deletions    *)
(* students enroll and rows are reactivated                                 *)

NextAtomic ==
    \/ \E op \in {"delete_department", "delete_program"}, id \in {1, 2, 9} :
          begin_forced_delete(1, Admin, op, id)
    \/ begin_forced_delete(1, NonAdmin, "delete_program", 1)
    \/ forced_delete_write(1)
    \/ forced_delete_commit(1)
    \/ forced_delete_fail(1)
    \/ /\ sessions[1] = Idle
       /\ \E actor \in Students : enroll_in_course(actor, 2, ProgramOf(actor))
    \/ /\ sessions[1] = Idle
       /\ assign_lecturer_to_department(Admin, 1, 3)
    \/ /\ sessions[1] = Idle
       /\ \E p \in {1, 2} :
             update_program(Admin, p, [code |-> <<>>, department_id |-> <<>>,
                                       is_active |-> <<TRUE>>, lecturers |-> <<>>])

SpecAtomic == Init /\ [][NextAtomic]_vars

----------------------------------------------------------------------------
(* Two workers serving assign and enroll requests at the same time; the     *)
(* administrator has lowered the capacity of course 2 to two seats          *)

NextRace ==
    \/ \E s \in Slots, r \in RoleLabels : assign_lecturer_read(s, Admin, 1, 3, r)
    \/ \E s \in Slots : assign_lecturer_commit(s)
    \/ \E s \in Slots, actor \in Students :
          enroll_read(s, actor, 2, ProgramOf(actor))
    \/ enroll_read(1, 5, 9, 1)
    \/ \E s \in Slots : enroll_select_course(s)
    \/ \E s \in Slots : enroll_count(s)
    \/ \E s \in Slots : enroll_commit(s)
    \/ /\ \E s \in Slots : sessions[s] = Idle
       /\ \E a \in AssignmentIdInputs : remove_lecturer_from_program(Admin, 1, a)
    \/ /\ \E s \in Slots : sessions[s] = Idle
       /\ update_course(Admin, 2, CapacityField(2))
    \/ \E s \in Slots : assign_lecturer_read(s, NonAdmin, 1, 3, "lecturer")
    \/ \E s \in Slots : enroll_read(s, NonStudent, 1, 1)

SpecRace == Init /\ [][NextRace]_vars

----------------------------------------------------------------------------
(* Registration, login and logout, and the administration of users *)

NameInputs == {"New User", "Tom & Co", "   ", ""}
EmailInputs == {"alice.smith@student.lms.edu", " Alice.Smith@Student.LMS.edu ",
                "Alice.Smith@Student.LMS.edu", "newuser@example.com",
                "registrar@lms.edu", "not-an-email"}
PasswordInputs == {"student123", "newpass123", ""}

\* "role" values of POST /api/users and PUT /api/users/{user_id}
RoleInputs == {"admin", "ADMIN", "student", "dean"}

CreateUserRequests ==
    [name : {"Registrar", ""}, email : {"registrar@lms.edu", "admin@lms.edu"},
     password : {"admin123"}, role : RoleInputs]

NextAuth ==
    \/ \E n \in {"Tom & Co", ""}, e \in EmailInputs, p \in PasswordInputs :
          register(n, e, p)
    \/ \E e \in EmailInputs, p \in PasswordInputs : login(e, p)
    \/ logout
    \/ \E req \in CreateUserRequests : create_user(Admin, req)
    \/ \E u \in {5, MaxUsers + 1}, role \in RoleInputs :
          update_user(Admin, u, "Alice Smith", role)
    \/ create_user(NonAdmin, AdminRequest)
    \/ update_user(NonAdmin, 5, "Alice Smith", "admin")
    \/ \E e \in Optional({"admin@lms.edu", " Alice.Smith@Student.LMS.edu ",
                          "newuser@example.com", "not-an-email"}) :
          update_user_profile(5, "Alice Smith", e)
    \/ \E cur \in PasswordInputs, new \in {"newpass123", ""} :
          change_password(5, cur, new)

SpecAuth == Init /\ [][NextAuth]_vars

----------------------------------------------------------------------------
(* Codes of programs and courses: rows are created, renamed, deactivated    *)
(* and reactivated                                                          *)

ProgramField(code, is_active) ==
    [code |-> code, department_id |-> <<>>, is_active |-> is_active,
     lecturers |-> <<>>]
CourseField(code, is_active) ==
    [code |-> code, department_id |-> <<>>, lecturer_id |-> <<>>,
     max_capacity |-> <<>>, is_active |-> is_active]

\* one field at a time: a new code, or is_active
CodeProgramUpdates ==
    {ProgramField(<<"mba">>, <<>>), ProgramField(<<"bscs">>, <<>>),
     ProgramField(<<>>, <<TRUE>>), ProgramField(<<>>, <<FALSE>>)}
CodeCourseUpdates ==
    {CourseField(<<"CS101">>, <<>>), CourseField(<<>>, <<TRUE>>),
     CourseField(<<>>, <<FALSE>>)}
NewProgram(code, department_id) ==
    [code |-> code, department_id |-> department_id, is_active |-> <<>>]
NewCourse(name, code, department_id, max_capacity) ==
    [name |-> name, code |-> code, department_id |-> department_id,
     max_capacity |-> max_capacity, lecturer_id |-> <<>>]

\* programs 1 (BSCS) and 4 (MBA) and courses 1 (CS101) and 2 (CS201) of the
\* seed, and the first row that is created
CodeProgramIds == {1, 4, 5}
CodeCourseIds == {1, 2, 5}

NextCodes ==
    \/ \E c \in Optional({"bscs"}) : create_program(Admin, NewProgram(c, <<1>>))
    \/ \E c \in Optional({"bscs"}) : router_create_program(Admin, NewProgram(c, <<1>>))
    \/ \E n \in Optional({"Programming"}), c \in Optional({"cs101", "c"}) :
          create_course(Admin, NewCourse(n, c, <<1>>, <<>>))
    \/ \E i \in CodeProgramIds, req \in CodeProgramUpdates :
          update_program(Admin, i, req)
    \/ \E i \in CodeProgramIds, req \in CodeProgramUpdates :
          router_update_program(Admin, i, req)
    \/ \E i \in CodeCourseIds, req \in CodeCourseUpdates :
          update_course(Admin, i, req)
    \/ \E i \in CodeProgramIds : delete_program(Admin, i, FALSE)
    \/ \E i \in CodeProgramIds : router_delete_program(Admin, i, FALSE)
    \/ \E i \in CodeCourseIds : delete_course(Admin, i, FALSE)
    \/ create_program(NonAdmin, NewProgram(<<"bscs">>, <<1>>))
    \/ router_create_program(NonAdmin, NewProgram(<<"bscs">>, <<1>>))
    \/ create_course(5, NewCourse(<<"Programming">>, <<"cs101">>, <<1>>, <<>>))

SpecCodes == Init /\ [][NextCodes]_vars

----------------------------------------------------------------------------
(* The script beside the server: one server process serves one request at   *)
(* a time (its handlers have no await), the script runs in a process of its *)
(* own; a commit of one may fall between two statements of the other        *)

\* the server process serves its requests in the first slot
Server == Min(Slots)

NextScript ==
    \/ fix_program_assignments(Script)
    \/ fix_select_program(Script)
    \/ fix_select_lecturer(Script)
    \/ fix_select_assignment(Script)
    \/ fix_commit_assignment(Script)
    \/ fix_select_courses(Script)
    \/ fix_select_allocation(Script)
    \/ fix_program_assignments_courses(Script)
    \/ create_sample_courses(Script)
    \/ sample_select_semester(Script)
    \/ sample_select_lecturer(Script)
    \/ sample_select_course(Script)
    \/ sample_commit(Script)
    \/ assign_lecturer_read(Server, Admin, 1, 2, "coordinator")
    \/ assign_lecturer_commit(Server)
    \/ update_program_read(Server, Admin, 1, LecturersOnly(<<3>>))
    \/ update_program_commit(Server)
    \/ allocate_course_read(Server, Admin, 1, 2, TRUE, 1)
    \/ allocate_course_commit(Server)
    \/ create_course_read(Server, Admin,
           NewCourse(<<"Programming">>, <<"cs301">>, <<1>>, <<>>))
    \/ create_course_commit(Server)
    \/ /\ sessions[Server] = Idle
       /\ remove_lecturer_from_program(Admin, 1, 1)
    \/ /\ sessions[Server] = Idle
       /\ remove_course_allocation(Admin, 1, 1)

SpecScript == Init /\ [][NextScript]_vars

----------------------------------------------------------------------------
(* References to departments: programs and courses are created in, and      *)
(* programs moved to, departments that are deactivated and reactivated      *)

ReferenceDepartmentIds == 1..2
ReferenceProgramUpdates ==
    {[code |-> <<>>, department_id |-> d, is_active |-> a, lecturers |-> <<>>] :
        d \in Optional({1}), a \in Optional({TRUE})}

NextReferences ==
    \/ \E d \in Optional({1, 9}) : create_program(Admin, NewProgram(<<"ee">>, d))
    \/ \E d \in Optional({1, 9}) : router_create_program(Admin, NewProgram(<<"ee">>, d))
    \/ \E d \in Optional({0, 1}) :
          create_course(Admin, NewCourse(<<"Programming">>, <<"ee">>, d, <<>>))
    \/ create_course(3, NewCourse(<<"Programming">>, <<"ee">>, <<2>>, <<>>))
    \/ \E d \in ReferenceDepartmentIds, a \in BOOLEAN :
          update_department(Admin, d, [code |-> <<>>, is_active |-> <<a>>])
    \/ \E force \in BOOLEAN : delete_department(Admin, 1, force)
    \/ \E i \in {1, 3, 5}, req \in ReferenceProgramUpdates :
          update_program(Admin, i, req)
    \/ \E i \in {1, 3, 5} : update_course(Admin, i, CourseField(<<>>, <<TRUE>>))

SpecReferences == Init /\ [][NextReferences]_vars

----------------------------------------------------------------------------
(* The enrollments of a course and its capacity: the three operations that  *)
(* change the ENROLLED count of a course or its max_capacity                *)

CapacityInputs == {0, 1, 2}

NextCapacity ==
    \/ \E actor \in Students, c \in {2, 4} :
          enroll_in_course(actor, c, ProgramOf(actor))
    \/ \E e \in EnrollmentIdInputs, st \in {"enrolled", "dropped", "completed"} :
          update_enrollment(Admin, e, <<st>>)
    \/ \E c \in {1, 2}, m \in CapacityInputs :
          update_course(Admin, c, CapacityField(m))
    \/ update_enrollment(NonAdmin, 1, <<"dropped">>)
    \/ update_course(5, 1, CapacityField(0))

SpecCapacity == Init /\ [][NextCapacity]_vars

----------------------------------------------------------------------------
(* The administration of departments, programs and allocations: calls of an *)
(* administrator that fill the four tables and change the role of a user,   *)
(* and the operations called by every user who is not an administrator      *)

NonAdmins == {u \in UserIds : UserRole[u] # "admin"}

AccessIds == 1..2

NextAccess ==
    \/ create_department(Admin, [name |-> <<"Computing">>, code |-> <<"EE">>])
    \/ update_program(Admin, 2, ProgramField(<<>>, <<FALSE>>))
    \/ \E i \in AccessIds : assign_lecturer_to_program(Admin, i, 3, "lecturer")
    \/ remove_lecturer_from_program(Admin, 1, 1)
    \/ \E c \in AccessIds : allocate_course_to_program(Admin, 1, c, TRUE, 1)
    \/ remove_course_allocation(Admin, 1, 2)
    \/ \E role \in {"admin", "lecturer"} :
          update_user(Admin, 2, "Dr. Sarah Johnson", role)
    \/ \E u \in NonAdmins :
          create_department(u, [name |-> <<"Computing">>, code |-> <<"EE">>])
    \/ \E u \in NonAdmins :
          update_department(u, 1, [code |-> <<>>, is_active |-> <<FALSE>>])
    \/ \E u \in NonAdmins : delete_department(u, 1, TRUE)
    \/ \E u \in NonAdmins : create_program(u, NewProgram(<<"ee">>, <<1>>))
    \/ \E u \in NonAdmins : update_program(u, 1, ProgramField(<<>>, <<FALSE>>))
    \/ \E u \in NonAdmins : delete_program(u, 1, TRUE)
    \/ \E u \in NonAdmins, i \in AccessIds :
          assign_lecturer_to_program(u, i, 3, "coordinator")
    \/ \E u \in NonAdmins, a \in AccessIds :
          update_lecturer_assignment(u, 1, a, <<"coordinator">>, <<FALSE>>)
    \/ \E u \in NonAdmins, a \in AccessIds : remove_lecturer_from_program(u, 1, a)
    \/ \E u \in NonAdmins, c \in AccessIds :
          allocate_course_to_program(u, 1, c, FALSE, 2)
    \/ \E u \in NonAdmins, a \in AccessIds :
          update_course_allocation(u, 1, a, <<FALSE>>, <<2>>, <<FALSE>>)
    \/ \E u \in NonAdmins, a \in AccessIds : remove_course_allocation(u, 1, a)
    \/ \E u \in NonAdmins :
          router_create_department(u, [name |-> <<"Computing">>,
                                       code |-> <<"EE">>, is_active |-> <<>>])
    \/ \E u \in NonAdmins :
          router_update_department(u, 1, [code |-> <<>>, is_active |-> <<FALSE>>])
    \/ \E u \in NonAdmins : router_delete_department(u, 1, TRUE)
    \/ \E u \in NonAdmins : router_create_program(u, NewProgram(<<"ee">>, <<1>>))
    \/ \E u \in NonAdmins : router_update_program(u, 1, ProgramField(<<>>, <<FALSE>>))
    \/ \E u \in NonAdmins : router_delete_program(u, 1, TRUE)

SpecAccess == Init /\ [][NextAccess]_vars

----------------------------------------------------------------------------
(* Semesters *)

SemesterIdInputs == 1..MaxSemesters
CreateSemesterRequests ==
    [name : Optional({"Summer"}), year : Optional({2019, 2026}),
     start_date : Optional({3}), is_current : Optional(BOOLEAN)]

NextSemester ==
    \/ \E req \in CreateSemesterRequests : create_semester(Admin, req)
    \/ \E i \in SemesterIdInputs, c \in Optional(BOOLEAN) : update_semester(Admin, i, c)
    \/ get_semesters
    \/ create_semester(NonAdmin, [name |-> <<"Summer">>, year |-> <<2026>>,
                                  start_date |-> <<3>>, is_current |-> <<>>])
    \/ update_semester(NonAdmin, 1, <<FALSE>>)

SpecSemester == Init /\ [][NextSemester]_vars

----------------------------------------------------------------------------
(* Rate limiting *)

NextRateLimit ==
    \/ \E ip \in ClientIps : dispatch(ip)
    \/ \E d \in TimeSteps : tick(d)

SpecRateLimit == Init /\ [][NextRateLimit]_vars

----------------------------------------------------------------------------
(* Properties of the lecturer allocation *)

\* ids of the ProgramLecturer rows of a (program, lecturer) pair
PairRows(pl, p, l) ==
    {i \in DOMAIN pl : pl[i].program_id = p /\ pl[i].lecturer_id = l}

ActivePairRows(pl, p, l) == {i \in PairRows(pl, p, l) : pl[i].is_active}

\* C1: when an admin calls assign_lecturer_to_program for a stored program
\* and a lecturer whose pair has an active ProgramLecturer row, the call is
\* rejected as already assigned and the table is left as it was (no row
\* created, none modified, the active count of the pair unchanged).
C1_AssignActivePairRejected ==
    \A actor \in Admins, p \in DOMAIN programs, l \in UserIds, r \in RoleLabels :
       (IsLecturer(l) /\ ActivePairRows(program_lecturers, p, l) # {})
       => LET res == AssignLecturerResult(actor, p, l, r) IN
          /\ res.status = 400
          /\ res.detail = "Lecturer is already assigned to this program"
          /\ res.program_lecturers = program_lecturers

\* C2: a pair was assigned through assign_lecturer_to_program (its row carries
\* an assigned_by) and a removal (soft delete) has just left it without an
\* active row; when an admin then assigns the pair (the user still being a
\* lecturer) again with role r, the call
\* succeeds by reactivation: no row is added, the pair has exactly one row,
\* that row is active with role r and assigned_by the current actor.
C2_ReassignAfterRemovalReactivates ==
    \A actor \in Admins, p \in DOMAIN programs, l \in UserIds, r \in RoleLabels :
       ( /\ IsLecturer(l)
         /\ resp.op = "remove_lecturer_from_program"
         /\ resp.status = 200
         /\ ActivePairRows(program_lecturers, p, l) = {}
         /\ \E k \in PairRows(program_lecturers, p, l) :
               program_lecturers[k].assigned_by_id # None )
       => LET res == AssignLecturerResult(actor, p, l, r) IN
          /\ res.status = 200
          /\ Len(res.program_lecturers) = Len(program_lecturers)
          /\ Cardinality(PairRows(res.program_lecturers, p, l)) = 1
          /\ \A i \in PairRows(res.program_lecturers, p, l) :
                /\ res.program_lecturers[i].is_active
                /\ res.program_lecturers[i].role = r
                /\ res.program_lecturers[i].assigned_by_id = actor

\* C3: in every reachable state each (program, lecturer) pair has at most one
\* active ProgramLecturer row, and at most one row at all (an inactive row is
\* reactivated, never joined by a second row of the pair).
C3_OneRowPerPair ==
    \A p \in DOMAIN programs, l \in UserIds :
        /\ Cardinality(ActivePairRows(program_lecturers, p, l)) <= 1
        /\ Cardinality(PairRows(program_lecturers, p, l)) <= 1

----------------------------------------------------------------------------
(* Properties of the course allocation *)

\* ids of the ProgramCourse rows of a (program, course) pair
PairAllocations(pc, p, c) ==
    {i \in DOMAIN pc : pc[i].program_id = p /\ pc[i].course_id = c}

\* the row an allocation request asks for
RequestedAllocation(actor, p, c, req) ==
    [program_id |-> p, course_id |-> c, is_required |-> req.is_required,
     semester_order |-> req.semester_order, is_active |-> TRUE,
     allocated_by_id |-> actor]

\* C4: allocate_course_to_program by an admin for an existing program and
\* course decides three ways on the rows of the pair: none -> one new active
\* row with the requested attributes is appended; an active one -> rejected
\* with 400 and the table unchanged; an inactive one -> that row is made
\* active and takes is_required, semester_order and allocated_by from the
\* request, no row is added and every other row is untouched.
C4_AllocateThreeWay ==
    \A actor \in Admins, p \in DOMAIN programs, c \in DOMAIN courses,
       req \in AllocationRequests :
       LET res == AllocateCourseResult(actor, p, c, req.is_required,
                                       req.semester_order)
           rows == PairAllocations(program_courses, p, c)
           n == Len(program_courses)
       IN IF rows = {} THEN
             /\ res.status = 200
             /\ Len(res.program_courses) = n + 1
             /\ SubSeq(res.program_courses, 1, n) = program_courses
             /\ res.program_courses[n + 1] = RequestedAllocation(actor, p, c, req)
          ELSE IF \E k \in rows : program_courses[k].is_active THEN
             /\ res.status = 400
             /\ res.detail = "Course is already allocated to this program"
             /\ res.program_courses = program_courses
          ELSE
             /\ res.status = 200
             /\ Len(res.program_courses) = n
             /\ \E k \in rows :
                   /\ res.program_courses[k] = RequestedAllocation(actor, p, c, req)
                   /\ \A j \in DOMAIN program_courses :
                         j # k => res.program_courses[j] = program_courses[j]

\* C4 witness: an inactive allocation has been reactivated as an elective of
\* the second semester by the second admin
C4_Witness ==
    /\ resp.op = "allocate_course_to_program"
    /\ resp.detail = "Course allocation reactivated successfully"
    /\ \E k \in DOMAIN program_courses :
          /\ program_courses[k].is_active
          /\ ~program_courses[k].is_required
          /\ program_courses[k].semester_order = 2
          /\ program_courses[k].allocated_by_id = 8


----------------------------------------------------------------------------
(* Properties of the enrollment *)

\* ids of the Enrollment rows of a (student, course) pair
PairEnrollments(enr, s, c) ==
    {i \in DOMAIN enr : enr[i].student_id = s /\ enr[i].course_id = c}

\* number of rows of a course whose status is ENROLLED
Enrolled(enr, c) ==
    Cardinality({i \in DOMAIN enr : enr[i].course_id = c /\ enr[i].status = "enrolled"})

\* C5: enroll_student for a student without an Enrollment row in an existing
\* course is rejected as full exactly when the ENROLLED rows of the course
\* number >= max_capacity, and then the table is unchanged; below the capacity
\* it succeeds, one row is added and the ENROLLED count of the course grows by
\* exactly one.
C5_CapacityDecidesEnrollment ==
    \A s \in UserIds, c \in DOMAIN courses, p \in DOMAIN programs :
       PairEnrollments(enrollments, s, c) = {}
       => LET res == enroll_student(enrollments, courses, s, c, p) IN
          IF Enrolled(enrollments, c) >= courses[c].max_capacity THEN
             /\ res.error = "Course is at full capacity"
             /\ res.enrollments = enrollments
          ELSE
             /\ res.error = ""
             /\ Len(res.enrollments) = Len(enrollments) + 1
             /\ Enrolled(res.enrollments, c) = Enrolled(enrollments, c) + 1

\* C5 witness: an enrollment has been refused for capacity while course 2,
\* its capacity lowered to 2, holds 2 ENROLLED rows, the seeded one and one a
\* student added below the capacity
C5_Witness ==
    /\ resp.op = "enroll_in_course"
    /\ resp.detail = "Course is at full capacity"
    /\ courses[2].max_capacity = 2
    /\ Enrolled(enrollments, 2) = 2
    /\ Len(enrollments) > Len(SeedEnrollmentData)

\* C6: right after a successful enrollment of (student, course), a repeated
\* enroll_student for that pair is rejected as already enrolled whatever
\* program id it carries, also when the course is full by then, and the table
\* is unchanged (no second row).
C6_RepeatedEnrollRejected ==
    (resp.op = "enroll_in_course" /\ resp.status = 200)
    => LET last == enrollments[Len(enrollments)] IN
       \A p \in ProgramIdInputs \cup {None} :
          LET res == enroll_student(enrollments, courses, last.student_id,
                                    last.course_id, p) IN
          /\ res.error = "Student is already enrolled in this course"
          /\ res.enrollments = enrollments

\* C6 witness: the enrollment that has just succeeded filled the course
C6_Witness ==
    /\ resp.op = "enroll_in_course"
    /\ resp.status = 200
    /\ LET last == enrollments[Len(enrollments)] IN
       /\ last.status = "enrolled"
       /\ Enrolled(enrollments, last.course_id) >= courses[last.course_id].max_capacity

\* C7: in every reachable state a (student, course) pair has at most one
\* Enrollment row with status ENROLLED.
C7_OneEnrolledRowPerPair ==
    \A s \in UserIds, c \in CourseIdInputs :
       Cardinality({i \in PairEnrollments(enrollments, s, c) :
                       enrollments[i].status = "enrolled"}) <= 1

\* C7 witness: an update has set a row of a pair to ENROLLED that a forced
\* deletion had dropped, and the pair still has that row only
C7_Witness ==
    /\ resp.op = "update_enrollment"
    /\ resp.status = 200
    /\ \E i \in DOMAIN enrollments :
          /\ enrollments[i].status = "enrolled"
          /\ ~enrollments[i].is_active
          /\ PairEnrollments(enrollments, enrollments[i].student_id,
                             enrollments[i].course_id) = {i}

\* C8: a student whose only rows in a course are DROPPED re-enrolls: when the
\* course is below its capacity enroll_student succeeds and appends a new
\* ENROLLED row, the DROPPED rows staying as they are.
C8_ReEnrollAfterDrop ==
    \A s \in Students, c \in DOMAIN courses, p \in DOMAIN programs :
       ( /\ PairEnrollments(enrollments, s, c) # {}
         /\ \A i \in PairEnrollments(enrollments, s, c) :
               enrollments[i].status = "dropped"
         /\ Enrolled(enrollments, c) < courses[c].max_capacity )
       => LET res == enroll_student(enrollments, courses, s, c, p)
              n == Len(enrollments)
          IN /\ res.error = ""
             /\ Len(res.enrollments) = n + 1
             /\ SubSeq(res.enrollments, 1, n) = enrollments
             /\ res.enrollments[n + 1].status = "enrolled"

\* C9: no step changes the status of an existing Enrollment row from DROPPED
\* or COMPLETED back to ENROLLED.
C9_NoReturnToEnrolled ==
    [][\A i \in DOMAIN enrollments :
          enrollments[i].status \in {"dropped", "completed"}
          => enrollments'[i].status # "enrolled"]_vars

----------------------------------------------------------------------------
(* Properties of the departments *)

\* C10: create_department with a code that, upper-cased, is the code of an
\* active department is rejected and the table is unchanged; when the code is
\* that of a soft-deleted department and of no active one, the creation
\* succeeds: one active department with that code is appended and the
\* soft-deleted row stays as it is, code included.
C10_ActiveScopedDepartmentCode ==
    \A code \in CodeInputs, act \in {<<>>, <<TRUE>>} :
       LET res == create_department_service(departments,
                      [code |-> code, is_active |-> act])
           n == Len(departments)
           owners == {i \in DOMAIN departments : departments[i].code = Upper(code)}
       IN IF \E i \in owners : departments[i].is_active THEN
             /\ res.error # ""
             /\ res.departments = departments
          ELSE owners # {} =>
             /\ res.error = ""
             /\ Len(res.departments) = n + 1
             /\ SubSeq(res.departments, 1, n) = departments
             /\ res.departments[n + 1] = [code |-> Upper(code), is_active |-> TRUE]

\* C10 witness: a department has been created with the code of the seeded
\* department, which a forced delete_department had deactivated together with
\* its programs
C10_Witness ==
    /\ resp.op = "create_department"
    /\ resp.status = 200
    /\ Len(departments) > Len(SeedDepartments)
    /\ ~departments[1].is_active
    /\ \A i \in DOMAIN programs : programs[i].department_id = 1 => ~programs[i].is_active
    /\ departments[Len(departments)] = [code |-> departments[1].code, is_active |-> TRUE]


----------------------------------------------------------------------------
(* Properties of the department deletion *)

\* active programs / active courses that name a department
ActiveProgramsOf(d) ==
    {i \in DOMAIN programs : programs[i].department_id = d /\ programs[i].is_active}

ActiveCoursesOf(d) ==
    {i \in DOMAIN courses : courses[i].department_id = d /\ courses[i].is_active}

\* C11: an unforced delete_department of an existing department is rejected
\* exactly when the department has an active program or an active course;
\* the rejection message carries the two counts and departments, programs,
\* courses and users are as before; can_delete_department answers
\* can_delete = false with the same two counts in exactly those states.
C11_UnforcedDeleteBlockedByDependents ==
    \A d \in DOMAIN departments :
       LET np == Cardinality(ActiveProgramsOf(d))
           nc == Cardinality(ActiveCoursesOf(d))
           res == delete_department_service(departments, programs, courses,
                                            users, d, FALSE)
           can == can_delete_department(departments, programs, courses, d)
       IN IF np > 0 \/ nc > 0 THEN
             /\ res.error = "Cannot delete department. It has " \o Str(np)
                           \o " active program(s) and " \o Str(nc)
                           \o " active course(s). Please deactivate or move them first."
             /\ res.departments = departments
             /\ res.programs = programs
             /\ res.courses = courses
             /\ res.users = users
             /\ DeleteDepartmentResult(Admin, d, FALSE).status # 200
             /\ ~can.can_delete
             /\ can.active_programs = np
             /\ can.active_courses = nc
          ELSE
             /\ res.error = ""
             /\ ~res.departments[d].is_active
             /\ can.can_delete

\* C11 witness: an unforced deletion has been refused for a department with
\* one active program and two active courses
C11_Witness ==
    /\ resp.op = "delete_department"
    /\ resp.detail = "Cannot delete department. It has 1 active program(s) and 2 active course(s). Please deactivate or move them first."
    /\ \E d \in DOMAIN departments :
          /\ departments[d].is_active
          /\ Cardinality(ActiveProgramsOf(d)) = 1
          /\ Cardinality(ActiveCoursesOf(d)) = 2


\* C12: a forced delete_department that succeeds leaves every program and
\* every course of the department inactive, no user in the department and
\* the department inactive; the other departments, and the programs, courses
\* and users of other departments, are as before.
C12_ForcedDeleteCascades ==
    \A d \in CascadeDepartmentIds :
       LET res == DeleteDepartmentResult(Admin, d, TRUE) IN
       res.status = 200 =>
          /\ ~res.departments[d].is_active
          /\ \A k \in DOMAIN departments : k # d => res.departments[k] = departments[k]
          /\ res.departments[d].code = departments[d].code
          /\ \A i \in DOMAIN programs :
                IF programs[i].department_id = d
                THEN res.programs[i] = [programs[i] EXCEPT !.is_active = FALSE]
                ELSE res.programs[i] = programs[i]
          /\ \A i \in DOMAIN courses :
                IF courses[i].department_id = d
                THEN res.courses[i] = [courses[i] EXCEPT !.is_active = FALSE]
                ELSE res.courses[i] = courses[i]
          /\ \A u \in UserIds :
                /\ res.users[u].department_id # d
                /\ users[u].department_id # d => res.users[u] = users[u]

\* C12 witness: the first department has been deleted by force while the
\* second keeps an active program, an active course and its lecturer
C12_Witness ==
    /\ resp.op = "delete_department"
    /\ resp.status = 200
    /\ ~departments[1].is_active
    /\ \E i \in DOMAIN programs : programs[i].department_id = 1
    /\ \E i \in DOMAIN courses : courses[i].department_id = 1
    /\ \A i \in DOMAIN programs : programs[i].department_id = 1 => ~programs[i].is_active
    /\ \A i \in DOMAIN courses : courses[i].department_id = 1 => ~courses[i].is_active
    /\ ActiveProgramsOf(2) # {}
    /\ ActiveCoursesOf(2) # {}
    /\ users[3].department_id = 2


----------------------------------------------------------------------------
(* Properties of the program deletion *)

\* ids of the Enrollment rows of a program, and those with status ENROLLED
ProgramEnrollments(enr, p) == {i \in DOMAIN enr : enr[i].program_id = p}

EnrolledOfProgram(enr, p) ==
    {i \in ProgramEnrollments(enr, p) : enr[i].status = "enrolled"}

\* C13: an unforced delete_program of an existing program is rejected exactly
\* when the program has an ENROLLED enrollment, and then program and
\* enrollments are as before and the rejection carries the count of those
\* enrollments (so it differs from the rejection given with one ENROLLED
\* enrollment more); without such an enrollment the program becomes inactive
\* and no enrollment changes.
C13_UnforcedProgramDelete ==
    \A p \in DOMAIN programs :
       LET res == delete_program_service(programs, enrollments, p, FALSE)
           one_more == Append(enrollments,
               [student_id |-> 5, course_id |-> 2, program_id |-> p,
                status |-> "enrolled", is_active |-> TRUE])
       IN IF EnrolledOfProgram(enrollments, p) # {} THEN
             /\ res.error # ""
             /\ res.programs = programs
             /\ res.enrollments = enrollments
             /\ res.error # delete_program_service(programs, one_more, p, FALSE).error
          ELSE
             /\ res.error = ""
             /\ res.programs = [programs EXCEPT ![p].is_active = FALSE]
             /\ res.enrollments = enrollments

\* the part of C13 without the count: rejection exactly with an ENROLLED
\* enrollment, nothing changed then, else only the program deactivated
C13_UnforcedProgramDeleteDecision ==
    \A p \in DOMAIN programs :
       LET res == delete_program_service(programs, enrollments, p, FALSE) IN
       IF EnrolledOfProgram(enrollments, p) # {} THEN
          /\ res.error # ""
          /\ res.programs = programs
          /\ res.enrollments = enrollments
       ELSE
          /\ res.error = ""
          /\ res.programs = [programs EXCEPT ![p].is_active = FALSE]
          /\ res.enrollments = enrollments


\* C14: a forced delete_program that succeeds leaves every enrollment of the
\* program DROPPED and inactive and the program inactive; the enrollments of
\* other programs and the other programs are as before.
C14_ForcedProgramDeleteCascades ==
    \A p \in ProgramIdInputs :
       LET res == DeleteProgramResult(Admin, p, TRUE) IN
       res.status = 200 =>
          /\ res.programs = [programs EXCEPT ![p].is_active = FALSE]
          /\ DOMAIN res.enrollments = DOMAIN enrollments
          /\ \A i \in DOMAIN enrollments :
                IF enrollments[i].program_id = p
                THEN res.enrollments[i] =
                        [enrollments[i] EXCEPT !.status = "dropped", !.is_active = FALSE]
                ELSE res.enrollments[i] = enrollments[i]

\* C14 witness: program 1 has been deleted by force, its enrollments are
\* DROPPED and inactive, an enrollment of program 4 is ENROLLED
C14_Witness ==
    /\ resp.op = "delete_program"
    /\ resp.status = 200
    /\ ~programs[1].is_active
    /\ ProgramEnrollments(enrollments, 1) # {}
    /\ \A i \in ProgramEnrollments(enrollments, 1) :
          enrollments[i].status = "dropped" /\ ~enrollments[i].is_active
    /\ \E i \in ProgramEnrollments(enrollments, 4) :
          enrollments[i].status = "enrolled" /\ enrollments[i].is_active


----------------------------------------------------------------------------
(* Properties of the forced deletions taken write by write *)

\* C15: a forced delete_department / delete_program is all or nothing: a step
\* of it either leaves departments, programs, courses, users and enrollments
\* as stored, or it is the commit and stores the whole cascade at once - the
\* tables the deletion taken as one step computes, parent row included; a
\* deletion that fails before the commit has changed no stored row.
C15_ForcedDeleteAllOrNothing ==
    [][\A s \in Slots :
          (sessions[s] # Idle /\ sessions'[s] # sessions[s]) =>
             \/ Stored' = Stored
             \/ /\ sessions'[s] = Idle
                /\ resp'.status = 200
                /\ Stored' =
                     IF sessions[s].op = "delete_department"
                     THEN [Stored EXCEPT
                             !.departments = DeleteDepartmentResult(Admin, sessions[s].id, TRUE).departments,
                             !.programs = DeleteDepartmentResult(Admin, sessions[s].id, TRUE).programs,
                             !.courses = DeleteDepartmentResult(Admin, sessions[s].id, TRUE).courses,
                             !.users = DeleteDepartmentResult(Admin, sessions[s].id, TRUE).users]
                     ELSE [Stored EXCEPT
                             !.programs = DeleteProgramResult(Admin, sessions[s].id, TRUE).programs,
                             !.enrollments = DeleteProgramResult(Admin, sessions[s].id, TRUE).enrollments]]_vars

\* C15 witness: a forced deletion of the first department has made all its
\* writes in its session (programs, courses, lecturer, department) and has
\* not committed: the store has every one of these rows as before
C15_Witness ==
    /\ sessions[1] # Idle
    /\ sessions[1].op = "delete_department"
    /\ sessions[1].writes = <<>>
    /\ ~sessions[1].tables.departments[1].is_active
    /\ ~sessions[1].tables.programs[1].is_active
    /\ ~sessions[1].tables.courses[1].is_active
    /\ sessions[1].tables.users[3].department_id = None
    /\ departments[1].is_active
    /\ programs[1].is_active
    /\ courses[1].is_active
    /\ users[3].department_id = 1


----------------------------------------------------------------------------
(* Properties of the responses *)

\* the operations of the academic core as the callers reach them
CoreOperations ==
    {"enroll_in_course", "create_department", "update_department",
     "delete_department", "update_program", "delete_program",
     "assign_lecturer_to_program", "allocate_course_to_program",
     "router_create_department", "router_update_department",
     "router_delete_department", "router_assign_lecturer_to_department",
     "router_create_program", "router_update_program",
     "router_delete_program"}

\* details of the rejections by a business rule
BusinessRejections ==
    {"Lecturer is already assigned to this program",
     "Course is already allocated to this program",
     "Student is already enrolled in this course",
     "Course is at full capacity",
     "Department code already exists",
     "Program code already exists",
     "Cannot delete program with active enrollments"}
    \cup {"Cannot delete department. It has " \o Str(np)
          \o " active program(s) and " \o Str(nc)
          \o " active course(s). Please deactivate or move them first." :
          np \in 0..3, nc \in 0..3}
    \cup {"Department code '" \o c \o "' already exists in active departments" :
          c \in {"CS", "EE", "MATH", "BUS", " CS ", "C"}}

\* details of the answers for a missing entity
MissingEntities ==
    {"Department not found", "Program not found", "Course not found",
     "Lecturer not found"}

\* C16: an operation of the academic core answers a rejection by a business
\* rule with status 400 and a missing department, program, course or user
\* with status 404, never with 500.
C16_RejectionsAre400And404 ==
    resp.op \in CoreOperations =>
       /\ resp.detail \in BusinessRejections => resp.status = 400
       /\ resp.detail \in MissingEntities => resp.status = 404


----------------------------------------------------------------------------
(* Properties of the requests served at the same time *)

\* C17: two assign_lecturer_to_program requests for one (program, lecturer)
\* pair that have both read "no existing row" are both allowed: once both
\* have committed the pair has two active ProgramLecturer rows; in the same
\* way two enroll requests of one student for one course that have both
\* passed the checks (the lookup of the row, the course, the count of the
\* seats) leave two ENROLLED rows of the pair.
C17_CheckThenActRace ==
    /\ ( /\ InFlight(1, "assign_lecturer_to_program")
         /\ InFlight(2, "assign_lecturer_to_program")
         /\ sessions[1].program_id = sessions[2].program_id
         /\ sessions[1].lecturer_id = sessions[2].lecturer_id
         /\ sessions[1].existing = None
         /\ sessions[2].existing = None )
       => LET after == AssignWrite(AssignWrite(program_lecturers, sessions[1]),
                                   sessions[2])
          IN Cardinality(ActivePairRows(after, sessions[1].program_id,
                                        sessions[1].lecturer_id))
             = Cardinality(ActivePairRows(program_lecturers, sessions[1].program_id,
                                          sessions[1].lecturer_id)) + 2
    /\ ( /\ At(1, "enroll_in_course", "commit")
         /\ At(2, "enroll_in_course", "commit")
         /\ sessions[1].student_id = sessions[2].student_id
         /\ sessions[1].course_id = sessions[2].course_id )
       => LET after == EnrollWrite(EnrollWrite(enrollments, courses, sessions[1]),
                                   courses, sessions[2])
              pair == PairEnrollments(after, sessions[1].student_id,
                                      sessions[1].course_id)
          IN Cardinality({i \in pair : after[i].status = "enrolled"}) >= 2

\* C17 witness: both races have run: the pair (program 1, lecturer 3) has two
\* active rows and student 5 has two ENROLLED rows in one course
C17_Witness ==
    /\ \A s \in Slots : sessions[s] = Idle
    /\ Cardinality(ActivePairRows(program_lecturers, 1, 3)) = 2
    /\ \E c \in DOMAIN courses :
          Cardinality({i \in PairEnrollments(enrollments, 5, c) :
                          enrollments[i].status = "enrolled"}) = 2

\* C18: two different students, neither with a row for the course, have passed
\* the checks of enroll_student for a course with exactly one free seat and
\* neither has committed: once both have committed the course
\* has more ENROLLED rows than max_capacity; had the second request been made
\* after the commit of the first, it would have been rejected as full.
C18_CapacityRace ==
    ( /\ At(1, "enroll_in_course", "commit")
      /\ At(2, "enroll_in_course", "commit")
      /\ sessions[1].student_id # sessions[2].student_id
      /\ sessions[1].course_id = sessions[2].course_id
      /\ \A s \in Slots : ExistingEnrollment(enrollments, sessions[s].student_id,
                                              sessions[s].course_id) = None
      /\ Enrolled(enrollments, sessions[1].course_id) + 1
            = courses[sessions[1].course_id].max_capacity )
    => LET c == sessions[1].course_id
           first == EnrollWrite(enrollments, courses, sessions[1])
           both == EnrollWrite(first, courses, sessions[2])
       IN /\ Len(both) = Len(enrollments) + 2
          /\ Enrolled(both, c) = courses[c].max_capacity + 1
          /\ enroll_student(first, courses, sessions[2].student_id, c,
                            sessions[2].program_id).error
                = "Course is at full capacity"

\* C18 witness: course 2, its capacity lowered to 2 with one seeded ENROLLED
\* row, holds three ENROLLED rows: both students have committed
C18_Witness ==
    /\ \A s \in Slots : sessions[s] = Idle
    /\ resp = Response("enroll_in_course", 200, "Student enrolled successfully")
    /\ Len(enrollments) = Len(SeedEnrollmentData) + 2
    /\ enrollments[Len(enrollments)].student_id # enrollments[Len(enrollments) - 1].student_id
    /\ enrollments[Len(enrollments)].course_id = 2
    /\ enrollments[Len(enrollments) - 1].course_id = 2
    /\ Enrolled(enrollments, 2) = 3
    /\ courses[2].max_capacity = 2


----------------------------------------------------------------------------
(* Properties of registration, login and logout *)

UniqueEmails(usrs) ==
    \A i, j \in DOMAIN usrs : usrs[i].email = usrs[j].email => i = j

\* C19: a register request whose email belongs to a stored user is answered
\* with 400, creates no user and sets no access_token cookie, and no two
\* stored users share an email.
C19_DuplicateEmailIs400 ==
    /\ \A n \in NameInputs, e \in EmailInputs, p \in PasswordInputs :
          UserByEmail(users, e) # None =>
             LET r == RegisterResult(users, n, e, p) IN
             /\ r.status = 400
             /\ r.users = users
             /\ ~Has(r.set_cookie)
    /\ UniqueEmails(users)

\* What holds of register: a request whose email, as validate_email returns
\* it, belongs to a stored user creates no user and sets no cookie; it is
\* answered with 400 when the name and the password pass their validation
\* and with 500 when one of them does not; stored emails stay unique.
C19_DuplicateEmailCreatesNoUser ==
    /\ \A n \in NameInputs, e \in EmailInputs, p \in PasswordInputs :
          (validate_email_error(e) = "" /\ UserByEmail(users, validate_email(e)) # None) =>
             LET r == RegisterResult(users, n, e, p)
                 valid == /\ validate_required_string_error(n, "Name") = ""
                          /\ validate_required_string_error(p, "Password") = ""
             IN
             /\ r.status = IF valid THEN 400 ELSE 500
             /\ r.users = users
             /\ ~Has(r.set_cookie)
    /\ UniqueEmails(users)

\* C20: a login that authenticate_user rejects is answered with 401 and sets
\* no access_token cookie; a login sets the cookie only when authenticate_user
\* returned a user, and then to the token of that user; logout is answered
\* with 200 and removes the cookie, whether or not the client holds one.
C20_CookieOnlyOnSuccessfulLogin ==
    /\ [](/\ \A e \in EmailInputs, p \in PasswordInputs :
               LET a == authenticate_user(users, e, p)
                   r == LoginResult(users, e, p)
               IN
               /\ a.error # "" => (r.status = 401 /\ ~Has(r.set_cookie))
               /\ Has(r.set_cookie) =>
                     /\ a.error = ""
                     /\ r.status = 200
                     /\ r.set_cookie = <<create_access_token(a.user_id)>>
          /\ LogoutResult.status = 200
          /\ LogoutResult.delete_cookie)
    /\ [][ /\ (resp'.op = "login" /\ resp'.status = 401) => cookie' = cookie
           /\ (resp'.op = "login" /\ cookie' # cookie) =>
                 /\ resp'.status = 200
                 /\ \E u \in DOMAIN users : cookie' = <<create_access_token(u)>>
           /\ resp'.op = "logout" => (resp'.status = 200 /\ cookie' = <<>>) ]_vars

\* C20 witness: a user has registered (which set the cookie) and logged out,
\* and the login that followed was rejected: the client holds no cookie
C20_Witness ==
    /\ \E u \in DOMAIN users :
          u > Len(SeedEmail) /\ users[u].email = "newuser@example.com"
    /\ resp = Response("login", 401, "Invalid email or password")
    /\ cookie = <<>>


----------------------------------------------------------------------------
(* Properties of the codes of active rows *)

UniqueActiveCodes(rows) ==
    \A i, j \in DOMAIN rows :
        (rows[i].is_active /\ rows[j].is_active /\ rows[i].code = rows[j].code)
            => i = j

\* C21: whatever create_department, update_department and delete_department
\* calls were made, no two active departments carry the same code.
C21_ActiveDepartmentCodesUnique == UniqueActiveCodes(departments)


\* C22: whatever create_course, update_course and delete_course calls were
\* made, no two active courses carry the same code, and, under
\* create_program, update_program and delete_program, no two active programs.
C22_ActiveCourseAndProgramCodesUnique ==
    /\ UniqueActiveCodes(courses)
    /\ UniqueActiveCodes(programs)

\* a code no active row other than row self carries, kept by a soft-deleted row
SoftDeletedCode(rows, self, code) ==
    /\ \E i \in DOMAIN rows : i # self /\ rows[i].code = code /\ ~rows[i].is_active
    /\ \A i \in DOMAIN rows : (i # self /\ rows[i].code = code) => ~rows[i].is_active

\* C23: the code of a soft-deleted department is accepted by update_department
\* for another department, as it is by create_department, and the code of a
\* soft-deleted program by update_program as by create_program.
C23_UpdateChecksActiveRowsOnly ==
    /\ \A d \in DOMAIN departments, c \in {"cs", "EE"} :
          SoftDeletedCode(departments, d, Upper(c)) =>
             /\ UpdateDepartmentResult(Admin, d,
                    [code |-> <<c>>, is_active |-> <<>>]).status = 200
             /\ (~departments[d].is_active \/ departments[d].code # Upper(c)) =>
                   create_department_service(departments,
                       [code |-> c, is_active |-> <<>>]).error = ""
    /\ \A i \in DOMAIN programs, c \in {"bscs", "mba"} :
          SoftDeletedCode(programs, i, Upper(c)) =>
             UpdateProgramResult(Admin, i, ProgramField(<<c>>, <<>>)).status = 200

----------------------------------------------------------------------------
(* Properties of the references between rows *)

\* C24: whatever department, program and course operations were made, every
\* active program and every active course belongs to a department that is
\* stored and active.
C24_ActiveChildrenOfActiveDepartments ==
    /\ \A i \in DOMAIN programs : programs[i].is_active =>
          /\ programs[i].department_id \in DOMAIN departments
          /\ departments[programs[i].department_id].is_active
    /\ \A i \in DOMAIN courses : courses[i].is_active =>
          /\ courses[i].department_id \in DOMAIN departments
          /\ departments[courses[i].department_id].is_active

\* C25: whatever enroll, delete_program and update_program calls were made,
\* every Enrollment with status ENROLLED names a program that is stored and
\* active.
C25_EnrolledInActivePrograms ==
    \A i \in DOMAIN enrollments : enrollments[i].status = "enrolled" =>
        /\ enrollments[i].program_id \in DOMAIN programs
        /\ programs[enrollments[i].program_id].is_active

\* What holds of delete_program: a delete without force never deactivates a
\* program that an ENROLLED enrollment names, and a forced delete leaves no
\* ENROLLED enrollment of the program.
C25_DeleteProgramKeepsEnrolledActive ==
    \A p \in DOMAIN programs, force \in BOOLEAN :
        LET r == DeleteProgramResult(Admin, p, force) IN
        ~r.programs[p].is_active =>
            (programs[p].is_active =>
                \A i \in DOMAIN r.enrollments :
                    r.enrollments[i].program_id = p => r.enrollments[i].status # "enrolled")

\* C26: whatever enroll, update_enrollment and update_course calls were made
\* one after the other, no course has more ENROLLED enrollments than
\* max_capacity.
C26_EnrolledWithinCapacity ==
    \A c \in DOMAIN courses : Enrolled(enrollments, c) <= courses[c].max_capacity

----------------------------------------------------------------------------
(* Properties of the course allocations *)

\* C27: whatever allocate, update and remove calls were made one after the
\* other, a (program, course) pair has at most one ProgramCourse row, active
\* or not; remove_course_allocation keeps every row, changing nothing but
\* the is_active flag of the row it names, which it sets to false; and a
\* remove of a row that is already inactive leaves the table as it is.
C27_OneAllocationPerPair ==
    /\ \A p \in DOMAIN programs, c \in DOMAIN courses :
          Cardinality(PairAllocations(program_courses, p, c)) <= 1
    /\ \A p \in ProgramIdInputs, a \in AllocationIdInputs :
          LET r == RemoveAllocationResult(Admin, p, a) IN
          /\ Len(r.program_courses) = Len(program_courses)
          /\ \A i \in DOMAIN program_courses :
                IF r.status = 200 /\ i = a
                THEN r.program_courses[i]
                        = [program_courses[i] EXCEPT !.is_active = FALSE]
                ELSE r.program_courses[i] = program_courses[i]
          /\ (r.status = 200 /\ ~program_courses[a].is_active)
                => r.program_courses = program_courses

\* An allocation was removed: its row is still stored, inactive, beside the
\* row of another pair.
C27_Witness ==
    /\ resp.op = "remove_course_allocation"
    /\ resp.status = 200
    /\ Len(program_courses) = 2
    /\ ~program_courses[1].is_active
    /\ program_courses[1].allocated_by_id = 8
    /\ program_courses[2].allocated_by_id = 1

----------------------------------------------------------------------------
(* Properties of the access control *)

\* the details of the role refusals: main.py's and those of the router
RoleRefusals ==
    {"Access denied", "Only admins can create departments",
     "Only admins can update departments", "Only admins can delete departments",
     "Only admins can create programs", "Only admins can update programs",
     "Only admins can delete programs"}

\* the handler refused the call for the caller's role
Denied(r) == r.status \in {403, 500} /\ r.detail \in RoleRefusals

\* C30: in every reachable state, each of the twelve operations on
\* departments, programs, lecturer assignments and course allocations,
\* called by a user who is not an administrator through main.py or, for the
\* six department and program operations, through the router, is refused for
\* the caller's role whatever ids and body it names (existing or not, valid
\* or not), and the tables the handler would commit are the stored ones.
C30_NonAdminChangesNothing ==
    \A u \in NonAdmins :
       /\ \A req \in CreateDepartmentRequests :
             LET r == CreateDepartmentResult(u, req) IN
             Denied(r) /\ r.departments = departments
       /\ \A d \in DepartmentIdInputs, data \in UpdateDepartmentRequests :
             LET r == UpdateDepartmentResult(u, d, data) IN
             Denied(r) /\ r.departments = departments
       /\ \A d \in DepartmentIdInputs, force \in BOOLEAN :
             LET r == DeleteDepartmentResult(u, d, force) IN
             /\ Denied(r)
             /\ r.departments = departments /\ r.programs = programs
             /\ r.courses = courses /\ r.users = users
       /\ \A c \in Optional({"ee", "bscs"}), d \in Optional({1, 3}) :
             LET r == CreateProgramResult(u, NewProgram(c, d)) IN
             Denied(r) /\ r.programs = programs
       /\ \A i \in ProgramIdInputs,
             data \in ReferenceProgramUpdates \cup CodeProgramUpdates
                        \cup {LecturersOnly(<<3>>)} :
             LET r == UpdateProgramResult(u, i, data) IN
             /\ Denied(r)
             /\ r.programs = programs /\ r.program_lecturers = program_lecturers
       /\ \A i \in ProgramIdInputs, force \in BOOLEAN :
             LET r == DeleteProgramResult(u, i, force) IN
             Denied(r) /\ r.programs = programs /\ r.enrollments = enrollments
       /\ \A i \in ProgramIdInputs, l \in LecturerIdInputs, role \in RoleLabels :
             LET r == AssignLecturerResult(u, i, l, role) IN
             Denied(r) /\ r.program_lecturers = program_lecturers
       /\ \A i \in ProgramIdInputs, a \in AssignmentIdInputs,
             role \in Optional(RoleLabels), act \in Optional(BOOLEAN) :
             LET r == UpdateAssignmentResult(u, i, a, role, act) IN
             Denied(r) /\ r.program_lecturers = program_lecturers
       /\ \A i \in ProgramIdInputs, a \in AssignmentIdInputs :
             LET r == RemoveLecturerResult(u, i, a) IN
             Denied(r) /\ r.program_lecturers = program_lecturers
       /\ \A i \in ProgramIdInputs, c \in CourseIdInputs, req \in AllocationRequests :
             LET r == AllocateCourseResult(u, i, c, req.is_required,
                                           req.semester_order) IN
             Denied(r) /\ r.program_courses = program_courses
       /\ \A i \in ProgramIdInputs, a \in AllocationIdInputs,
             req \in AllocationRequests, act \in Optional(BOOLEAN) :
             LET r == UpdateAllocationResult(u, i, a, <<req.is_required>>,
                                             <<req.semester_order>>, act) IN
             Denied(r) /\ r.program_courses = program_courses
       /\ \A i \in ProgramIdInputs, a \in AllocationIdInputs :
             LET r == RemoveAllocationResult(u, i, a) IN
             Denied(r) /\ r.program_courses = program_courses
       /\ \A req \in RouterCreateDepartmentRequests :
             LET r == RouterCreateDepartmentResult(u, req) IN
             Denied(r) /\ r.departments = departments
       /\ \A d \in DepartmentIdInputs, data \in UpdateDepartmentRequests :
             LET r == RouterUpdateDepartmentResult(u, d, data) IN
             Denied(r) /\ r.departments = departments
       /\ \A d \in DepartmentIdInputs, force \in BOOLEAN :
             LET r == RouterDeleteDepartmentResult(u, d, force) IN
             /\ Denied(r)
             /\ r.departments = departments /\ r.programs = programs
             /\ r.courses = courses /\ r.users = users
       /\ \A c \in Optional({"ee", "bscs"}), d \in Optional({1, 3}) :
             LET r == RouterCreateProgramResult(u, NewProgram(c, d)) IN
             Denied(r) /\ r.programs = programs
       /\ \A i \in ProgramIdInputs,
             data \in ReferenceProgramUpdates \cup CodeProgramUpdates
                        \cup {LecturersOnly(<<3>>)} :
             LET r == RouterUpdateProgramResult(u, i, data) IN
             /\ Denied(r)
             /\ r.programs = programs /\ r.program_lecturers = program_lecturers
       /\ \A i \in ProgramIdInputs, force \in BOOLEAN :
             LET r == RouterDeleteProgramResult(u, i, force) IN
             Denied(r) /\ r.programs = programs /\ r.enrollments = enrollments

\* A user who is not an administrator asked to update the active allocation
\* 1 of program 1 and was refused; the row is as it was allocated, and the
\* program has a lecturer assigned.
C30_Witness ==
    /\ resp.op = "update_course_allocation"
    /\ resp.detail = "Access denied"
    /\ Len(program_courses) >= 1
    /\ program_courses[1].program_id = 1
    /\ program_courses[1].is_active
    /\ program_courses[1].is_required
    /\ program_courses[1].semester_order = 1
    /\ Len(program_lecturers) >= 1

----------------------------------------------------------------------------
(* Properties of the current semester *)

ValidCreateSemester(req) ==
    /\ Has(req.name)
    /\ ValidateIntegerError(req.year, "year", 2020, 2030) = ""
    /\ Has(req.start_date)

\* C28: a well-formed create_semester with is_current=true adds a semester
\* flagged current and update_semester with is_current=true flags the
\* semester it names, in both cases whatever other semesters are flagged and
\* without clearing the flag of any of them.
C28_CurrentSemesterNotExclusive ==
    /\ \A req \in CreateSemesterRequests :
          (ValidCreateSemester(req) /\ req.is_current = <<TRUE>>) =>
             LET r == CreateSemesterResult(Admin, req) IN
             /\ r.status = 200
             /\ r.semesters = Append(semesters,
                    [start_date |-> Val(req.start_date), is_current |-> TRUE])
    /\ \A i \in DOMAIN semesters :
          UpdateSemesterResult(Admin, i, <<TRUE>>).semesters
             = [semesters EXCEPT ![i].is_current = TRUE]

\* What holds of the semesters: update_semester with is_current=true flags
\* the semester it names and leaves every other row as it is, create_semester
\* never changes a stored row, a create_semester with is_current=true is
\* answered with 500 and adds nothing, and an accepted create_semester adds
\* a semester that is not flagged.
C28_UpdateSemesterNotExclusive ==
    /\ \A i \in DOMAIN semesters :
          UpdateSemesterResult(Admin, i, <<TRUE>>).semesters
             = [semesters EXCEPT ![i].is_current = TRUE]
    /\ \A req \in CreateSemesterRequests :
          LET r == CreateSemesterResult(Admin, req) IN
          /\ \A i \in DOMAIN semesters : r.semesters[i] = semesters[i]
          /\ req.is_current = <<TRUE>> => (r.status = 500 /\ r.semesters = semesters)
          /\ r.status = 200 => ~r.semesters[Len(r.semesters)].is_current

\* two semesters are flagged current (reached by update_semester)
C28_TwoCurrentSemesters ==
    Cardinality({i \in DOMAIN semesters : semesters[i].is_current}) >= 2

----------------------------------------------------------------------------
(* Properties of the rate limiter *)

\* the requests of a client passed on less than one minute before time t
AdmittedBefore(ip, t) ==
    {i \in DOMAIN admitted[ip] : admitted[ip][i] <= t /\ t - admitted[ip][i] < Window}

\* C29: for every client, at most requests_per_minute of its requests are
\* passed on within one minute; a request is refused with 429 exactly when
\* requests_per_minute requests of the same client were passed on in the
\* minute before it; a refused request is not recorded; and the requests of
\* one client neither count against nor change the list of another.
C29_RateLimitPerClient ==
    \A ip \in ClientIps :
        LET r == DispatchResult(requests, ip, now) IN
        /\ \A i \in DOMAIN admitted[ip] :
              Cardinality(AdmittedBefore(ip, admitted[ip][i])) <= RequestsPerMinute
        /\ r.status = 429 <=> Cardinality(AdmittedBefore(ip, now)) >= RequestsPerMinute
        /\ r.status = 429 => r.requests[ip] = Clean(requests[ip], now)
        /\ r.status = 200 => r.requests[ip] = Append(Clean(requests[ip], now), now)
        /\ \A other \in ClientIps \ {ip} :
              /\ r.requests[other] = requests[other]
              /\ DispatchResult([requests EXCEPT ![other] = <<>>], ip, now).status
                    = r.status

\* C29 witness: a client that was refused is still refused in the last second
\* of the minute that began with its first request, while the other client
\* is served
C29_Witness ==
    /\ resp = Response("dispatch", 429, "Rate limit exceeded. Please try again later.")
    /\ \E ip \in ClientIps :
          /\ Len(requests[ip]) = RequestsPerMinute
          /\ now - requests[ip][1] = Window - 1
          /\ DispatchResult(requests, ip, now).status = 429
          /\ \E other \in ClientIps \ {ip} :
                /\ admitted[other] # <<>>
                /\ DispatchResult(requests, other, now).status = 200

====
